---- MODULE Spec2Model ----
(***************************************************************************)
(* Model of goodtables-pandas: field parsing (parse.py), constraint and    *)
(* key checking (check.py) and the validation orchestrator (validate.py).  *)
(*                                                                         *)
(* Representation.  A table (pandas DataFrame) is a record                 *)
(*   [id |-> object identity, rows |-> sequence of rows]                   *)
(* where a row is a function from column names to cells.  A typed cell is  *)
(* <<>> (null: NaN / <NA>) or <<v>> (the value v).  A raw cell is a        *)
(* sequence of one-character strings, or NaN.                              *)
(***************************************************************************)
EXTENDS Integers, Sequences, FiniteSets, TLC

VARIABLES
    df,           \* check_*: the table argument
    references,   \* check_foreign_keys: name -> table
    op,           \* the operation that ran last ("" before any)
    args,         \* the other arguments of the call that ran last
    out,          \* the result of the call that ran last
    package,      \* validate: the descriptor of the package
    report,       \* validate: the report
    dfs,          \* validate: the map of typed tables, name -> table
    pc,           \* validate: the loop it is in and the resource it is at
    calls         \* validate: the operations called so far (history)

vars == <<df, references, op, args, out, package, report, dfs, pc, calls>>
validateVars == <<package, report, dfs, pc, calls>>

----------------------------------------------------------------------------
(* Bounds of the model *)

\* Largest number of rows of the table handed to check_unique_keys and
\* check_primary_key.
MaxRows == 3

\* Largest number of rows of the child and of the parent table handed to
\* check_foreign_keys.
MaxChildRows == 2
MaxParentRows == 2

----------------------------------------------------------------------------
(* Sequence helpers (pandas / Python primitives) *)

\* x[mask]: the elements of s at the positions where mask holds, in order.
RECURSIVE SelectMask(_, _)
SelectMask(s, mask) ==
    IF s = <<>> THEN <<>>
    ELSE (IF Head(mask) THEN <<Head(s)>> ELSE <<>>) \o SelectMask(Tail(s), Tail(mask))

\* mask.any()
AnyTrue(mask) == \E i \in DOMAIN mask : mask[i]

\* The null typed cell (NaN, <NA>) and isna().
NA == <<>>
Range(s) == {s[i] : i \in DOMAIN s}
IsNa(c) == c = NA

\* (Variant of CellEq in which a null equals nothing, as in SQL.)
CellEqNullDistinct(a, b) == ~IsNa(a) /\ ~IsNa(b) /\ a = b

\* Equality of two cells as pandas' hashing sees it (duplicated, unique,
\* drop_duplicates, isin): nulls are equal to each other.
CellEq(a, b) ==
    \/ IsNa(a) /\ IsNa(b)
    \/ ~IsNa(a) /\ ~IsNa(b) /\ a = b

\* Equality of two key tuples, component by component.
TupleEq(s, t) ==
    /\ Len(s) = Len(t)
    /\ \A j \in DOMAIN s : CellEq(s[j], t[j])

\* DataFrame.duplicated() on a sequence of tuples: a position is flagged when
\* an earlier position holds an equal tuple (keep="first").
duplicated(ts) ==
    [i \in DOMAIN ts |-> \E j \in 1..(i - 1) : TupleEq(ts[j], ts[i])]

\* The tuples as they are, repeated ones included.
keep_duplicates(ts) == ts

\* DataFrame.drop_duplicates(): first occurrences, in order.
drop_duplicates(ts) == SelectMask(ts, [i \in DOMAIN ts |-> ~duplicated(ts)[i]])

\* df[key]: the sub-table of the key columns, one tuple per row.
KeyRows(table, key) ==
    [i \in DOMAIN table.rows |-> [j \in DOMAIN key |-> table.rows[i][key[j]]]]

\* df[name]: one column.
Column(table, name) == [i \in DOMAIN table.rows |-> table.rows[i][name]]

----------------------------------------------------------------------------
(* Python primitives on strings.  A string is a sequence of one-character *)
(* strings; a cell of a column is NA (null) or <<v>> for the value v.     *)

Digits == {"0", "1", "2", "3", "4", "5", "6", "7", "8", "9"}
DigitSeq == <<"0", "1", "2", "3", "4", "5", "6", "7", "8", "9">>
DigitVal(c) == (CHOOSE i \in DOMAIN DigitSeq : DigitSeq[i] = c) - 1

UpperSeq == <<"A", "B", "C", "D", "E", "F", "G", "H", "I", "J", "K", "L", "M",
              "N", "O", "P", "Q", "R", "S", "T", "U", "V", "W", "X", "Y", "Z">>
LowerSeq == <<"a", "b", "c", "d", "e", "f", "g", "h", "i", "j", "k", "l", "m",
              "n", "o", "p", "q", "r", "s", "t", "u", "v", "w", "x", "y", "z">>
LowerLetters == {LowerSeq[i] : i \in DOMAIN LowerSeq}

\* str.lower() of one character and of a string (re.IGNORECASE).
LowerChar(c) ==
    IF \E i \in DOMAIN UpperSeq : UpperSeq[i] = c
    THEN LowerSeq[CHOOSE i \in DOMAIN UpperSeq : UpperSeq[i] = c]
    ELSE c
LowerStr(s) == [i \in DOMAIN s |-> LowerChar(s[i])]

\* The whitespace str.strip(), int() and float() skip and \s matches.
Whitespace == {" ", "\t", "\n", "\r"}

RECURSIVE LStrip(_)
LStrip(s) == IF s # <<>> /\ Head(s) \in Whitespace THEN LStrip(Tail(s)) ELSE s
RECURSIVE RStrip(_)
RStrip(s) ==
    IF s # <<>> /\ s[Len(s)] \in Whitespace THEN RStrip(SubSeq(s, 1, Len(s) - 1)) ELSE s
Strip(s) == RStrip(LStrip(s))

\* s[a:] (1-based a) and the first position of a character of set at or after
\* position p (0 when there is none).
From(s, a) == SubSeq(s, a, Len(s))
FirstIn(s, set, p) ==
    IF \E i \in p..Len(s) : s[i] \in set
    THEN CHOOSE i \in p..Len(s) : s[i] \in set /\ \A j \in p..(i - 1) : s[j] \notin set
    ELSE 0

\* The length of the run of digits of s that starts at position p.
RECURSIVE DigitRun(_, _)
DigitRun(s, p) == IF p <= Len(s) /\ s[p] \in Digits THEN 1 + DigitRun(s, p + 1) ELSE 0

\* digitpart of Python's int and float literals: digits, single underscores
\* allowed between two digits.
IsDigitPart(s) ==
    /\ s # <<>>
    /\ s[1] \in Digits /\ s[Len(s)] \in Digits
    /\ \A i \in DOMAIN s : s[i] \in Digits \cup {"_"}
    /\ \A i \in 1..(Len(s) - 1) : ~(s[i] = "_" /\ s[i + 1] = "_")

\* The number a digitpart denotes (underscores skipped), most significant first.
RECURSIVE DigitsValueFrom(_, _)
DigitsValueFrom(s, acc) ==
    IF s = <<>> THEN acc
    ELSE IF Head(s) = "_" THEN DigitsValueFrom(Tail(s), acc)
    ELSE DigitsValueFrom(Tail(s), 10 * acc + DigitVal(Head(s)))
DigitsValue(s) == DigitsValueFrom(s, 0)
DigitCount(s) == Cardinality({i \in DOMAIN s : s[i] \in Digits})

\* The significant digits of a digitpart: underscores and leading zeros
\* dropped (<<>> for zero).
RECURSIVE SigDigits(_)
SigDigits(s) ==
    IF s = <<>> THEN <<>>
    ELSE IF Head(s) \in {"_", "0"} THEN SigDigits(Tail(s))
    ELSE SelectSeq(s, LAMBDA c : c # "_")

\* Lexicographic a <= b on digit strings of the same length.
RECURSIVE DigitsLeq(_, _)
DigitsLeq(a, b) ==
    IF a = <<>> THEN TRUE
    ELSE IF DigitVal(Head(a)) < DigitVal(Head(b)) THEN TRUE
    ELSE IF DigitVal(Head(a)) > DigitVal(Head(b)) THEN FALSE
    ELSE DigitsLeq(Tail(a), Tail(b))

\* The digits of 2^63 - 1 and of 2^63: the range of int64.
Int64MaxDigits ==
    <<"9", "2", "2", "3", "3", "7", "2", "0", "3", "6", "8", "5", "4", "7", "7", "5", "8", "0", "7">>
Int64MinDigits ==
    <<"9", "2", "2", "3", "3", "7", "2", "0", "3", "6", "8", "5", "4", "7", "7", "5", "8", "0", "8">>
FitsInt64(neg, sig) ==
    \/ Len(sig) < Len(Int64MaxDigits)
    \/ /\ Len(sig) = Len(Int64MaxDigits)
       /\ DigitsLeq(sig, IF neg THEN Int64MinDigits ELSE Int64MaxDigits)

\* A Python int: the number itself while it has at most nine digits, else
\* its sign and digits.
PyIntValue(neg, body) ==
    IF Len(SigDigits(body)) <= 9
    THEN (IF neg THEN 0 - DigitsValue(body) ELSE DigitsValue(body))
    ELSE [neg |-> neg, digits |-> SigDigits(body)]

\* int(xi) for a string: [ok, v, int64]; ok is FALSE where int raises
\* ValueError, int64 says whether the value fits a 64-bit signed integer.
PyInt(s) ==
    LET t == Strip(s)
        signed == t # <<>> /\ t[1] \in {"+", "-"}
        neg == signed /\ t[1] = "-"
        body == IF signed THEN Tail(t) ELSE t
    IN  IF IsDigitPart(body)
        THEN [ok |-> TRUE, v |-> PyIntValue(neg, body), int64 |-> FitsInt64(neg, SigDigits(body))]
        ELSE [ok |-> FALSE, v |-> 0, int64 |-> TRUE]

\* A float as the model holds it: nan, +-inf, or +-m * 10^e with m not a
\* multiple of 10 (zero is m = 0, e = 0, unsigned: 0.0 == -0.0).
FloatNaN == [kind |-> "nan", neg |-> FALSE, m |-> 0, e |-> 0]
FloatInf(neg) == [kind |-> "inf", neg |-> neg, m |-> 0, e |-> 0]
RECURSIVE FloatFinite(_, _, _)
FloatFinite(neg, m, e) ==
    IF m = 0 THEN [kind |-> "fin", neg |-> FALSE, m |-> 0, e |-> 0]
    ELSE IF m % 10 = 0 THEN FloatFinite(neg, m \div 10, e + 1)
    ELSE [kind |-> "fin", neg |-> neg, m |-> m, e |-> e]

\* The number of decimal digits of m > 0 and 10^n.
RECURSIVE NumDigits(_)
NumDigits(m) == IF m < 10 THEN 1 ELSE 1 + NumDigits(m \div 10)
RECURSIVE Pow10(_)
Pow10(n) == IF n = 0 THEN 1 ELSE 10 * Pow10(n - 1)

\* The range of a 64-bit float: a decimal above the largest double
\* (1.7976931348623157e308) is inf, one below half the smallest
\* (4.94e-324 / 2) is zero.  Mantissas have at most nine digits; the loss of
\* precision of subnormal numbers is not modelled.
FloatRange(f) ==
    IF f.kind # "fin" \/ f.m = 0 THEN f
    ELSE LET d == NumDigits(f.m)
             mag == f.e + d - 1
             lead == IF d <= 9 THEN f.m * Pow10(9 - d) ELSE f.m \div Pow10(d - 9)
         IN  IF mag > 308 \/ (mag = 308 /\ lead >= 179769314) THEN FloatInf(f.neg)
             ELSE IF mag < -324 \/ (mag = -324 /\ lead <= 247032822)
                  THEN [kind |-> "fin", neg |-> FALSE, m |-> 0, e |-> 0]
             ELSE f

\* The mantissa of a float literal: digitpart ["." [digitpart]] | "." digitpart.
\* [ok, m, scale] with the value m * 10^(-scale).  A double keeps 15 to 17
\* significant digits; the model keeps the first nine.
FloatMantissa(s) ==
    LET dot == FirstIn(s, {"."}, 1)
        ip == IF dot = 0 THEN s ELSE SubSeq(s, 1, dot - 1)
        fp == IF dot = 0 THEN <<>> ELSE From(s, dot + 1)
        ok == /\ ip # <<>> \/ fp # <<>>
              /\ ip = <<>> \/ IsDigitPart(ip)
              /\ fp = <<>> \/ IsDigitPart(fp)
        sig == SigDigits(ip \o fp)
        cut == IF Len(sig) > 9 THEN Len(sig) - 9 ELSE 0
    IN  IF ok THEN [ok |-> TRUE, m |-> DigitsValue(SubSeq(sig, 1, Len(sig) - cut)),
                    scale |-> DigitCount(fp) - cut]
        ELSE [ok |-> FALSE, m |-> 0, scale |-> 0]

\* The exponent of a float literal after the "e": ["+" | "-"] digitpart.
FloatExponent(s) ==
    LET signed == s # <<>> /\ s[1] \in {"+", "-"}
        body == IF signed THEN Tail(s) ELSE s
    IN  IF IsDigitPart(body)
        THEN [ok |-> TRUE,
              v |-> IF signed /\ s[1] = "-" THEN 0 - DigitsValue(body) ELSE DigitsValue(body)]
        ELSE [ok |-> FALSE, v |-> 0]

\* float(xi) for a string: [ok, v]; ok is FALSE where float raises ValueError.
PyFloat(s) ==
    LET t == Strip(s)
        signed == t # <<>> /\ t[1] \in {"+", "-"}
        neg == signed /\ t[1] = "-"
        body == LowerStr(IF signed THEN Tail(t) ELSE t)
        epos == FirstIn(body, {"e"}, 1)
        mant == FloatMantissa(IF epos = 0 THEN body ELSE SubSeq(body, 1, epos - 1))
        expo == IF epos = 0 THEN [ok |-> TRUE, v |-> 0] ELSE FloatExponent(From(body, epos + 1))
    IN  IF body = <<"n", "a", "n">> THEN [ok |-> TRUE, v |-> FloatNaN]
        ELSE IF body \in {<<"i", "n", "f">>, <<"i", "n", "f", "i", "n", "i", "t", "y">>}
             THEN [ok |-> TRUE, v |-> FloatInf(neg)]
        ELSE IF mant.ok /\ expo.ok
             THEN [ok |-> TRUE, v |-> FloatRange(FloatFinite(neg, mant.m, expo.v - mant.scale))]
        ELSE [ok |-> FALSE, v |-> FloatNaN]

\* Whether s continues with the characters of word (lower-cased) at position p.
StartsWithAt(s, p, word) ==
    /\ p + Len(word) - 1 <= Len(s)
    /\ \A i \in DOMAIN word : LowerChar(s[p + i - 1]) = word[i]

\* _INTEGER_PATTERN ([+-]?[0-9]+): the length of the match that starts at
\* position p (0: none).
IntegerMatchAt(s, p) ==
    IF p > Len(s) THEN 0
    ELSE IF s[p] \in {"+", "-"}
         THEN (IF DigitRun(s, p + 1) > 0 THEN 1 + DigitRun(s, p + 1) ELSE 0)
         ELSE DigitRun(s, p)

\* The exponent (?:e[+-]?[0-9]+)? of _NUMBER_PATTERN at position p: its length.
ExponentMatchAt(s, p) ==
    IF p <= Len(s) /\ LowerChar(s[p]) = "e"
    THEN IF p + 1 <= Len(s) /\ s[p + 1] \in {"+", "-"}
         THEN (IF DigitRun(s, p + 2) > 0 THEN 2 + DigitRun(s, p + 2) ELSE 0)
         ELSE (IF DigitRun(s, p + 1) > 0 THEN 1 + DigitRun(s, p + 1) ELSE 0)
    ELSE 0

\* The unsigned alternatives of _NUMBER_PATTERN at position p: nan,
\* inf(?:inity)?, (?:[0-9]+(?:\.[0-9]*)?|\.[0-9]+)(?:e[+-]?[0-9]+)?.
NumberBodyMatchAt(s, p) ==
    IF StartsWithAt(s, p, <<"n", "a", "n">>) THEN 3
    ELSE IF StartsWithAt(s, p, <<"i", "n", "f">>)
         THEN (IF StartsWithAt(s, p + 3, <<"i", "n", "i", "t", "y">>) THEN 8 ELSE 3)
    ELSE LET n1 == DigitRun(s, p)
             mant == IF n1 > 0
                     THEN (IF p + n1 <= Len(s) /\ s[p + n1] = "."
                           THEN n1 + 1 + DigitRun(s, p + n1 + 1) ELSE n1)
                     ELSE (IF p <= Len(s) /\ s[p] = "." /\ DigitRun(s, p + 1) > 0
                           THEN 1 + DigitRun(s, p + 1) ELSE 0)
         IN  IF mant = 0 THEN 0 ELSE mant + ExponentMatchAt(s, p + mant)

\* _NUMBER_PATTERN at position p, with its optional sign.
NumberMatchAt(s, p) ==
    IF p > Len(s) THEN 0
    ELSE IF s[p] \in {"+", "-"}
         THEN (IF NumberBodyMatchAt(s, p + 1) > 0 THEN 1 + NumberBodyMatchAt(s, p + 1) ELSE 0)
         ELSE NumberBodyMatchAt(s, p)

\* pattern.findall(xi): the non-overlapping matches, scanned left to right.
RECURSIVE FindAllIntegers(_, _)
FindAllIntegers(s, p) ==
    IF p > Len(s) THEN <<>>
    ELSE LET n == IntegerMatchAt(s, p)
         IN  IF n > 0 THEN <<SubSeq(s, p, p + n - 1)>> \o FindAllIntegers(s, p + n)
             ELSE FindAllIntegers(s, p + 1)
RECURSIVE FindAllNumbers(_, _)
FindAllNumbers(s, p) ==
    IF p > Len(s) THEN <<>>
    ELSE LET n == NumberMatchAt(s, p)
         IN  IF n > 0 THEN <<SubSeq(s, p, p + n - 1)>> \o FindAllNumbers(s, p + n)
             ELSE FindAllNumbers(s, p + 1)

----------------------------------------------------------------------------
(* parse.py: field parsers.  A parser takes a column (a sequence of cells, *)
(* NA or <<string>>) and returns a Series, a type error, or raises.        *)

Series(values, dtype) == [kind |-> "Series", values |-> values, dtype |-> dtype]
ValueTypeError(fieldType, fieldFormat, values, note) ==
    [kind |-> "TypeError", fieldType |-> fieldType, fieldFormat |-> fieldFormat,
     values |-> values, note |-> note]
Raised(exc) == [kind |-> "raised", exc |-> exc]
NoNote == <<>>

\* The format names of the field descriptors, as strings of characters.
FormatDefault == <<"d", "e", "f", "a", "u", "l", "t">>
FormatAny == <<"a", "n", "y">>
FormatEmail == <<"e", "m", "a", "i", "l">>
FormatUri == <<"u", "r", "i">>
FormatUuid == <<"u", "u", "i", "d">>
FormatBinary == <<"b", "i", "n", "a", "r", "y">>
FormatArray == <<"a", "r", "r", "a", "y">>
FormatObject == <<"o", "b", "j", "e", "c", "t">>

\* Series.unique(): the distinct cells in order of first appearance.
Unique(s) == SelectMask(s, [i \in DOMAIN s |-> ~\E j \in 1..(i - 1) : CellEq(s[j], s[i])])

\* x[invalid].unique().tolist()
InvalidValues(x, invalid) == Unique(SelectMask(x, invalid))

\* str.replace(old, new) of Python, all non-overlapping occurrences from the
\* left; old is not empty.
RECURSIVE Replace(_, _, _)
Replace(s, old, new) ==
    IF Len(s) < Len(old) THEN s
    ELSE IF SubSeq(s, 1, Len(old)) = old
         THEN new \o Replace(From(s, Len(old) + 1), old, new)
         ELSE <<Head(s)>> \o Replace(Tail(s), old, new)

\* Series.str.replace(old, new, regex=False): nulls stay null.
StrReplace(x, old, new) ==
    [i \in DOMAIN x |-> IF IsNa(x[i]) THEN NA ELSE <<Replace(x[i][1], old, new)>>]

\* A float as a cell of a float64 column: NaN is the null of the column.
FloatCell(v) == IF v.kind = "nan" THEN NA ELSE <<v>>

\* _parse_number(xi) and _extract_number(xi) on one cell: [ok, cell]; ok is
\* FALSE for the "NULL" marker.  A null cell is float("nan"): float() returns
\* it, and findall() raises TypeError on it.
NullMarker == [ok |-> FALSE, cell |-> NA]
NumberOfFloat(r) == IF r.ok THEN [ok |-> TRUE, cell |-> FloatCell(r.v)] ELSE NullMarker
_parse_number(c) ==
    IF IsNa(c) THEN [ok |-> TRUE, cell |-> NA] ELSE NumberOfFloat(PyFloat(c[1]))
\* (Variant of _extract_number that takes the first of several matches.)
_extract_first_number(c) ==
    IF IsNa(c) THEN NullMarker
    ELSE LET parts == FindAllNumbers(c[1], 1)
         IN  IF Len(parts) >= 1 THEN _parse_number(<<parts[1]>>) ELSE NullMarker
_extract_number(c) ==
    IF IsNa(c) THEN NullMarker
    ELSE LET parts == FindAllNumbers(c[1], 1)
         IN  IF Len(parts) = 1 THEN _parse_number(<<parts[1]>>) ELSE NullMarker

\* The first position of a FALSE in a boolean column, 0 if none: where
\* Series.astype raises on a cell that float() (resp. int()) rejects.
FirstBad(ok) ==
    IF \E i \in DOMAIN ok : ~ok[i]
    THEN CHOOSE i \in DOMAIN ok : ~ok[i] /\ \A j \in 1..(i - 1) : ok[j]
    ELSE 0

\* parse_number from the column after the replacements (parsed0), with
\* _parse_number (strict) and _extract_number (extracted) of each of its cells.
parse_number_of(x, parsed0, strict, extracted, bareNumber, OPTIONS) ==
    LET bad == FirstBad([i \in DOMAIN x |-> strict[i].ok])
        parsed == IF bareNumber THEN strict ELSE extracted
        invalid == [i \in DOMAIN x |-> ~IsNa(x[i]) /\ ~parsed[i].ok]
    IN  IF OPTIONS.raise_first_invalid_number
        THEN IF bad = 0
             THEN Series([i \in DOMAIN x |-> strict[i].cell], "float64")
             ELSE ValueTypeError("number", FormatDefault, <<>>, <<parsed0[bad]>>)
        ELSE IF AnyTrue(invalid)
             THEN ValueTypeError("number", FormatDefault, InvalidValues(x, invalid), NoNote)
             ELSE Series([i \in DOMAIN x |-> parsed[i].cell], "float64")
parse_number_replaced(x, parsed0, bareNumber, OPTIONS) ==
    parse_number_of(x, parsed0, [i \in DOMAIN x |-> _parse_number(parsed0[i])],
                    [i \in DOMAIN x |-> _extract_number(parsed0[i])], bareNumber, OPTIONS)
ReplaceDecimalChar(x, decimalChar) ==
    IF decimalChar # <<".">> THEN StrReplace(x, decimalChar, <<".">>) ELSE x
parse_number(x, decimalChar, groupChar, bareNumber, OPTIONS) ==
    parse_number_replaced(
        x, ReplaceDecimalChar(IF groupChar # <<>> THEN StrReplace(x, groupChar, <<>>) ELSE x,
                              decimalChar),
        bareNumber, OPTIONS)

\* _parse_integer(xi) and _extract_integer(xi) on one cell: [cell, int64],
\* the parsed cell (NA for np.nan) and whether the int fits 64 bits.  A null
\* cell is float("nan"): int() raises ValueError on it, and findall() raises
\* TypeError.
NanInteger == [cell |-> NA, int64 |-> TRUE]
IntegerOfInt(r) == IF r.ok THEN [cell |-> <<r.v>>, int64 |-> r.int64] ELSE NanInteger
_parse_integer(c) == IF IsNa(c) THEN NanInteger ELSE IntegerOfInt(PyInt(c[1]))
_extract_integer(c) ==
    IF IsNa(c) THEN NanInteger
    ELSE LET parts == FindAllIntegers(c[1], 1)
         IN  IF Len(parts) = 1 THEN _parse_integer(<<parts[1]>>) ELSE NanInteger

\* Series.astype("Int64") of a column of Python ints and NaN: the conversion
\* to int64 raises OverflowError on an int outside the 64-bit range.
AsInt64(parsed) ==
    IF \A i \in DOMAIN parsed : parsed[i].int64
    THEN Series([i \in DOMAIN parsed |-> parsed[i].cell], "Int64")
    ELSE Raised("OverflowError")

\* parse_integer from int() (ints), _parse_integer (strict) and
\* _extract_integer (extracted) of each cell of the column.
parse_integer_of(x, ints, strict, extracted, bareNumber, OPTIONS) ==
    LET bad == FirstBad([i \in DOMAIN x |-> IsNa(x[i]) \/ (ints[i].ok /\ ints[i].int64)])
        parsed == IF bareNumber THEN strict ELSE extracted
        invalid == [i \in DOMAIN x |-> ~IsNa(x[i]) /\ IsNa(parsed[i].cell)]
    IN  IF OPTIONS.raise_first_invalid_integer
        THEN IF bad = 0
             THEN Series([i \in DOMAIN x |-> strict[i].cell], "Int64")
             ELSE IF ints[bad].ok THEN Raised("OverflowError")
             ELSE ValueTypeError("integer", FormatDefault, <<>>, <<x[bad]>>)
        ELSE IF AnyTrue(invalid)
             THEN ValueTypeError("integer", FormatDefault, InvalidValues(x, invalid), NoNote)
             ELSE AsInt64(parsed)
parse_integer(x, bareNumber, OPTIONS) ==
    parse_integer_of(
        x, [i \in DOMAIN x |-> IF IsNa(x[i]) THEN [ok |-> FALSE, v |-> 0, int64 |-> TRUE]
                                ELSE PyInt(x[i][1])],
        [i \in DOMAIN x |-> _parse_integer(x[i])], [i \in DOMAIN x |-> _extract_integer(x[i])],
        bareNumber, OPTIONS)

\* The default trueValues and falseValues of parse_boolean.
DefaultTrueValues == {<<"t", "r", "u", "e">>, <<"T", "r", "u", "e">>, <<"T", "R", "U", "E">>, <<"1">>}
DefaultFalseValues ==
    {<<"f", "a", "l", "s", "e">>, <<"F", "a", "l", "s", "e">>, <<"F", "A", "L", "S", "E">>, <<"0">>}

\* parse_boolean without the mask of nulls: a null counts as an invalid value.
parse_boolean_nulls_invalid(x, trueValues, falseValues) ==
    LET true == [i \in DOMAIN x |-> ~IsNa(x[i]) /\ x[i][1] \in trueValues]
        false == [i \in DOMAIN x |-> ~IsNa(x[i]) /\ x[i][1] \in falseValues]
        invalid == [i \in DOMAIN x |-> ~(true[i] \/ false[i])]
    IN  IF AnyTrue(invalid)
        THEN ValueTypeError("boolean", FormatDefault, InvalidValues(x, invalid), NoNote)
        ELSE Series([i \in DOMAIN x |-> IF true[i] THEN <<1>> ELSE <<0>>], "Int64")

parse_boolean(x, trueValues, falseValues) ==
    LET true == [i \in DOMAIN x |-> ~IsNa(x[i]) /\ x[i][1] \in trueValues]
        false == [i \in DOMAIN x |-> ~IsNa(x[i]) /\ x[i][1] \in falseValues]
        na == [i \in DOMAIN x |-> IsNa(x[i])]
        invalid == [i \in DOMAIN x |-> ~(true[i] \/ false[i] \/ na[i])]
    IN  IF AnyTrue(invalid)
        THEN ValueTypeError("boolean", FormatDefault, InvalidValues(x, invalid), NoNote)
        ELSE Series([i \in DOMAIN x |->
                        IF na[i] THEN NA ELSE IF true[i] THEN <<1>> ELSE <<0>>], "Int64")

parse_year_of(x, parsed) ==
    LET invalid == [i \in DOMAIN x |-> ~IsNa(x[i]) /\ IsNa(parsed[i].cell)]
    IN  IF AnyTrue(invalid)
        THEN ValueTypeError("year", FormatDefault, InvalidValues(x, invalid), NoNote)
        ELSE AsInt64(parsed)
parse_year(x) == parse_year_of(x, [i \in DOMAIN x |-> _extract_integer(x[i])])

----------------------------------------------------------------------------
(* Regular expressions of parse.py.  A pattern that is a sequence of        *)
(* quantified character classes between ^ and $ is a sequence of items      *)
(* [neg, set, lo, hi, grp]: between lo and hi characters (greedy) that are  *)
(* in set (not in set when neg; hi = -1: no upper bound), captured as     *)
(* group grp when grp > 0.                                                 *)

Item(neg, set, lo, hi, grp) == [neg |-> neg, set |-> set, lo |-> lo, hi |-> hi, grp |-> grp]
Lit(c) == Item(FALSE, {c}, 1, 1, 0)
InClass(item, c) == IF item.neg THEN c \notin item.set ELSE c \in item.set

\* The length of the run of characters of the item's class from position p.
RECURSIVE ClassRun(_, _, _)
ClassRun(item, s, p) ==
    IF p <= Len(s) /\ InClass(item, s[p]) THEN 1 + ClassRun(item, s, p + 1) ELSE 0

\* $ matches at the end of the string and before a newline that ends it.
AtEnd(s, p) == p = Len(s) + 1 \/ (p = Len(s) /\ s[p] = "\n")

\* re.match of items k.. at position p: [ok, groups], groups the captured
\* strings.  MatchRepeat tries n repetitions of item k, then n - 1, ...: the
\* backtracking of a greedy quantifier.
RECURSIVE MatchItems(_, _, _, _, _), MatchRepeat(_, _, _, _, _, _)
MatchItems(items, k, s, p, groups) ==
    IF k > Len(items) THEN [ok |-> AtEnd(s, p), groups |-> groups]
    ELSE LET run == ClassRun(items[k], s, p)
             most == IF items[k].hi < 0 \/ run < items[k].hi THEN run ELSE items[k].hi
         IN  MatchRepeat(items, k, s, p, groups, most)
MatchRepeat(items, k, s, p, groups, n) ==
    IF n < items[k].lo THEN [ok |-> FALSE, groups |-> groups]
    ELSE LET r == MatchItems(items, k + 1, s, p + n,
                      IF items[k].grp > 0
                      THEN [groups EXCEPT ![items[k].grp] = SubSeq(s, p, p + n - 1)]
                      ELSE groups)
         IN  IF r.ok THEN r ELSE MatchRepeat(items, k, s, p, groups, n - 1)

\* pattern.findall(xi) of an anchored pattern with two groups: <<>> or the
\* one pair of groups.
FindAllPair(items, s) ==
    LET r == MatchItems(items, 1, s, 1, <<<<>>, <<>>>>)
    IN  IF r.ok THEN <<r.groups>> ELSE <<>>

LitSeq(w) == [i \in DOMAIN w |-> Lit(w[i])]
Spaces == Item(FALSE, Whitespace, 0, -1, 0)
AnyPlus(grp) == Item(TRUE, {"\n"}, 1, -1, grp)

\* ^([^, ]+), ?([^ ]+)$
_GEOPOINT_PATTERN_DEFAULT ==
    <<Item(TRUE, {",", " "}, 1, -1, 1), Lit(","), Item(FALSE, {" "}, 0, 1, 0),
      Item(TRUE, {" "}, 1, -1, 2)>>
\* ^\s*\[\s*(.+),\s*(.+)\s*\]\s*$
_GEOPOINT_PATTERN_ARRAY ==
    <<Spaces, Lit("["), Spaces, AnyPlus(1), Lit(","), Spaces, AnyPlus(2), Spaces, Lit("]"), Spaces>>
\* ^\s*\{\s*"lon":\s*(.+),\s*"lat":\s*(.+)\s*\}\s*$ and its lat, lon twin
GeopointObjectPattern(first, second) ==
    <<Spaces, Lit("{"), Spaces>> \o LitSeq(first) \o <<Spaces, AnyPlus(1), Lit(","), Spaces>>
    \o LitSeq(second) \o <<Spaces, AnyPlus(2), Spaces, Lit("}"), Spaces>>
LonKey == <<"\"", "l", "o", "n", "\"", ":">>
LatKey == <<"\"", "l", "a", "t", "\"", ":">>
_GEOPOINT_PATTERN_LONLAT == GeopointObjectPattern(LonKey, LatKey)
_GEOPOINT_PATTERN_LATLON == GeopointObjectPattern(LatKey, LonKey)

\* float(parts[0][0]), float(parts[0][1]): the tuple as a cell, NA for np.nan
\* (IndexError when nothing matched, ValueError when float() rejects a part).
GeopointOfFloats(lon, lat) == IF lon.ok /\ lat.ok THEN <<<<lon.v, lat.v>>>> ELSE NA
GeopointOfParts(parts) ==
    IF parts = <<>> THEN NA
    ELSE GeopointOfFloats(PyFloat(parts[1][1]), PyFloat(parts[1][2]))

_extract_geopoint_default(xi) == GeopointOfParts(FindAllPair(_GEOPOINT_PATTERN_DEFAULT, xi))
_extract_geopoint_array(xi) == GeopointOfParts(FindAllPair(_GEOPOINT_PATTERN_ARRAY, xi))
\* The parts of the object format: lon before lat, else lat before lon, swapped.
GeopointObjectParts(lonlat, latlon) ==
    IF lonlat # <<>> THEN lonlat
    ELSE IF latlon # <<>> THEN <<<<latlon[1][2], latlon[1][1]>>>>
    ELSE <<>>
_extract_geopoint_object(xi) ==
    GeopointOfParts(GeopointObjectParts(FindAllPair(_GEOPOINT_PATTERN_LONLAT, xi),
                                        FindAllPair(_GEOPOINT_PATTERN_LATLON, xi)))

GeopointFormats == {FormatDefault, FormatArray, FormatObject}

\* parse_geopoint from the extraction of each cell of the column.
parse_geopoint_of(x, format, parsed) ==
    LET invalid == [i \in DOMAIN x |-> ~IsNa(x[i]) /\ IsNa(parsed[i])]
    IN  IF AnyTrue(invalid)
        THEN ValueTypeError("geopoint", format, InvalidValues(x, invalid), NoNote)
        ELSE Series(parsed, "object")
parse_geopoint(x, format) ==
    IF format \notin GeopointFormats THEN Raised("KeyError")
    ELSE parse_geopoint_of(
             x, format,
             [i \in DOMAIN x |->
                 IF IsNa(x[i]) THEN NA
                 ELSE IF format = FormatDefault THEN _extract_geopoint_default(x[i][1])
                 ELSE IF format = FormatArray THEN _extract_geopoint_array(x[i][1])
                 ELSE _extract_geopoint_object(x[i][1])])

AlnumLower == LowerLetters \cup Digits
HexLower == {"a", "b", "c", "d", "e", "f"} \cup Digits
Base64Alphabet == LowerLetters \cup {UpperSeq[i] : i \in DOMAIN UpperSeq} \cup Digits \cup {"+", "/"}

\* base64.b64decode(xi) of _validate_string_binary: characters outside the
\* alphabet are discarded, "=" ends the data once it completes a block of
\* four, and data that stops inside a block is an error.  quad is the
\* position in the block, pads the "=" seen since the last data character.
RECURSIVE Base64Ok(_, _, _, _)
Base64Ok(s, p, quad, pads) ==
    IF p > Len(s) THEN quad = 0
    ELSE IF s[p] = "="
         THEN IF quad >= 2 /\ quad + pads + 1 >= 4 THEN TRUE
              ELSE Base64Ok(s, p + 1, quad, IF quad >= 2 THEN pads + 1 ELSE pads)
    ELSE IF s[p] \in Base64Alphabet THEN Base64Ok(s, p + 1, (quad + 1) % 4, 0)
    ELSE Base64Ok(s, p + 1, quad, pads)
_validate_string_binary(xi) == Base64Ok(xi, 1, 0, 0)

\* s.split(sep) of Python for a one-character separator.
RECURSIVE Split(_, _)
Split(s, sep) ==
    LET i == FirstIn(s, {sep}, 1)
    IN  IF i = 0 THEN <<s>> ELSE <<SubSeq(s, 1, i - 1)>> \o Split(From(s, i + 1), sep)

\* What $ leaves of the string: a newline that ends it is dropped.
BeforeEnd(s) == IF s # <<>> /\ s[Len(s)] = "\n" THEN SubSeq(s, 1, Len(s) - 1) ELSE s

\* The email pattern (re.IGNORECASE): at most 64 characters before the @, a
\* local part of non-empty atoms joined by ".", and two or more DNS labels of
\* at most 63 characters, each of alphanumeric runs joined by single "-".
\* (GraveAccent stands for the character U+0060, which a TLA+ string cannot hold.)
GraveAccent == "grave"
EmailAtomChars ==
    AlnumLower \cup {"!", "#", "$", "%", "&", "'", "*", "+", "-", "/", "=", "?", "^", "_",
                     GraveAccent, "{", "|", "}", "~"}
IsEmailLabel(l) ==
    /\ Len(l) \in 1..63
    /\ \A part \in Range(Split(l, "-")) : part # <<>> /\ \A i \in DOMAIN part : part[i] \in AlnumLower
IsEmail(xi) ==
    LET s == LowerStr(BeforeEnd(xi))
        at == FirstIn(s, {"@"}, 1)
        local == SubSeq(s, 1, at - 1)
        labels == Split(From(s, at + 1), ".")
    IN  /\ at \in 2..65
        /\ \A atom \in Range(Split(local, ".")) :
               atom # <<>> /\ \A i \in DOMAIN atom : atom[i] \in EmailAtomChars
        /\ Len(labels) >= 2
        /\ \A l \in Range(labels) : IsEmailLabel(l)

\* The uri pattern ^[a-z][a-z0-9+.-]*:(?:\/\/[^\s]+|[^\s\/][^\s]*)$
UriScheme ==
    <<Item(FALSE, LowerLetters, 1, 1, 0), Item(FALSE, AlnumLower \cup {"+", ".", "-"}, 0, -1, 0),
      Lit(":")>>
IsUri(xi) ==
    LET s == LowerStr(xi)
        slashes == UriScheme \o <<Lit("/"), Lit("/"), Item(TRUE, Whitespace, 1, -1, 0)>>
        plain == UriScheme \o <<Item(TRUE, Whitespace \cup {"/"}, 1, 1, 0),
                                Item(TRUE, Whitespace, 0, -1, 0)>>
    IN  \/ MatchItems(slashes, 1, s, 1, <<>>).ok
        \/ MatchItems(plain, 1, s, 1, <<>>).ok

\* The uuid pattern ^[a-f0-9]{8}-?[a-f0-9]{4}-?[a-f0-9]{4}-?[a-f0-9]{4}-?[a-f0-9]{12}$
UuidPattern ==
    LET Hex(n) == Item(FALSE, HexLower, n, n, 0)
        Dash == Item(FALSE, {"-"}, 0, 1, 0)
    IN  <<Hex(8), Dash, Hex(4), Dash, Hex(4), Dash, Hex(4), Dash, Hex(12)>>
IsUuid(xi) == MatchItems(UuidPattern, 1, LowerStr(xi), 1, <<>>).ok

StringPatterns == {FormatEmail, FormatUri, FormatUuid}

\* parse_string from the validity of each non-null cell of the column.
parse_string_of(x, format, invalid) ==
    IF AnyTrue(invalid)
    THEN ValueTypeError("string", format, InvalidValues(x, invalid), NoNote)
    ELSE Series(x, "object")
parse_string(x, format) ==
    IF format = FormatDefault THEN Series(x, "object")
    ELSE IF format \notin StringPatterns \cup {FormatBinary} THEN Raised("KeyError")
    ELSE parse_string_of(
             x, format,
             [i \in DOMAIN x |->
                 /\ ~IsNa(x[i])
                 /\ ~(IF format = FormatBinary THEN _validate_string_binary(x[i][1])
                      ELSE IF format = FormatEmail THEN IsEmail(x[i][1])
                      ELSE IF format = FormatUri THEN IsUri(x[i][1])
                      ELSE IsUuid(x[i][1]))])

----------------------------------------------------------------------------
(* pd.to_datetime(x, errors="coerce", format=pattern) of parse_date and     *)
(* parse_datetime: strptime by the directive table of Python's _strptime,   *)
(* then the calendar and the range of pd.Timestamp.                         *)

\* The directives of the formats the model draws; any other is rejected
\* like an unknown directive.
StrptimeDirectives == {"Y", "m", "d", "y", "H", "M", "S", "z", "%"}

\* The format as tokens: a directive, a run of whitespace (\s+), a literal.
RECURSIVE Tokenize(_)
Tokenize(fmt) ==
    IF fmt = <<>> THEN <<>>
    ELSE IF Head(fmt) = "%"
         THEN IF Len(fmt) < 2 THEN <<[kind |-> "stray", ch |-> "%"]>>
              ELSE <<[kind |-> "dir", ch |-> fmt[2]]>> \o Tokenize(From(fmt, 3))
    ELSE IF Head(fmt) \in Whitespace THEN <<[kind |-> "ws", ch |-> " "]>> \o Tokenize(LStrip(fmt))
    ELSE <<[kind |-> "lit", ch |-> Head(fmt)]>> \o Tokenize(Tail(fmt))

\* A format the regex compiler rejects: a stray %, an unknown directive, or a
\* directive used twice (a group name defined twice).
BadFormat(tokens) ==
    \/ \E i \in DOMAIN tokens : tokens[i].kind = "stray"
    \/ \E i \in DOMAIN tokens : tokens[i].kind = "dir" /\ tokens[i].ch \notin StrptimeDirectives
    \/ \E i, j \in DOMAIN tokens :
           i < j /\ tokens[i].kind = "dir" /\ tokens[i] = tokens[j] /\ tokens[i].ch # "%"

CharIn(s, i, set) == i <= Len(s) /\ s[i] \in set
Opt(cond, n) == IF cond THEN <<n>> ELSE <<>>
D19 == Digits \ {"0"}
D05 == {"0", "1", "2", "3", "4", "5"}

\* The lengths of [+-]\d\d:?[0-5]\d(:?[0-5]\d(\.\d{1,6})?)? at position p,
\* longest alternative first.
ZoneLengths(s, p) ==
    LET colon1 == IF CharIn(s, p + 3, {":"}) THEN 1 ELSE 0
        base == 5 + colon1
        okBase == /\ CharIn(s, p, {"+", "-"}) /\ CharIn(s, p + 1, Digits) /\ CharIn(s, p + 2, Digits)
                  /\ CharIn(s, p + 3 + colon1, D05) /\ CharIn(s, p + 4 + colon1, Digits)
        colon2 == IF CharIn(s, p + base, {":"}) THEN 1 ELSE 0
        secs == base + colon2 + 2
        okSecs == okBase /\ CharIn(s, p + base + colon2, D05) /\ CharIn(s, p + base + colon2 + 1, Digits)
        run == DigitRun(s, p + secs + 1)
        frac == IF run > 6 THEN 6 ELSE run
        okFrac == okSecs /\ CharIn(s, p + secs, {"."}) /\ frac >= 1
    IN  (IF okFrac THEN [i \in 1..frac |-> secs + 1 + (frac - i + 1)] ELSE <<>>)
        \o Opt(okSecs, secs) \o Opt(okBase, base)

\* The lengths a directive can match at position p, in the order of the
\* alternatives of its regular expression.
Candidates(ch, s, p) ==
    IF ch = "Y" THEN Opt(\A i \in 0..3 : CharIn(s, p + i, Digits), 4)
    ELSE IF ch = "y" THEN Opt(\A i \in 0..1 : CharIn(s, p + i, Digits), 2)
    ELSE IF ch = "m"
         THEN Opt(CharIn(s, p, {"1"}) /\ CharIn(s, p + 1, {"0", "1", "2"}), 2)
              \o Opt(CharIn(s, p, {"0"}) /\ CharIn(s, p + 1, D19), 2)
              \o Opt(CharIn(s, p, D19), 1)
    ELSE IF ch = "d"
         THEN Opt(CharIn(s, p, {"3"}) /\ CharIn(s, p + 1, {"0", "1"}), 2)
              \o Opt(CharIn(s, p, {"1", "2"}) /\ CharIn(s, p + 1, Digits), 2)
              \o Opt(CharIn(s, p, {"0"}) /\ CharIn(s, p + 1, D19), 2)
              \o Opt(CharIn(s, p, D19), 1)
              \o Opt(CharIn(s, p, {" "}) /\ CharIn(s, p + 1, D19), 2)
    ELSE IF ch = "H"
         THEN Opt(CharIn(s, p, {"2"}) /\ CharIn(s, p + 1, {"0", "1", "2", "3"}), 2)
              \o Opt(CharIn(s, p, {"0", "1"}) /\ CharIn(s, p + 1, Digits), 2)
              \o Opt(CharIn(s, p, Digits), 1)
    ELSE IF ch = "M"
         THEN Opt(CharIn(s, p, D05) /\ CharIn(s, p + 1, Digits), 2) \o Opt(CharIn(s, p, Digits), 1)
    ELSE IF ch = "S"
         THEN Opt(CharIn(s, p, {"6"}) /\ CharIn(s, p + 1, {"0", "1"}), 2)
              \o Opt(CharIn(s, p, D05) /\ CharIn(s, p + 1, Digits), 2)
              \o Opt(CharIn(s, p, Digits), 1)
    ELSE IF ch = "z" THEN ZoneLengths(s, p) \o Opt(CharIn(s, p, {"Z"}), 1)
    ELSE Opt(CharIn(s, p, {"%"}), 1)

\* The UTC offset in seconds of the text %z matched (fractions dropped).
ZoneOffset(z) ==
    IF z = <<"Z">> THEN 0
    ELSE LET c1 == IF z[4] = ":" THEN 1 ELSE 0
             hh == DigitsValue(SubSeq(z, 2, 3))
             mm == DigitsValue(SubSeq(z, 4 + c1, 5 + c1))
             rest == From(z, 6 + c1)
             c2 == IF rest # <<>> /\ rest[1] = ":" THEN 1 ELSE 0
             ss == IF rest = <<>> THEN 0 ELSE DigitsValue(SubSeq(rest, 1 + c2, 2 + c2))
             total == hh * 3600 + mm * 60 + ss
         IN  IF z[1] = "-" THEN 0 - total ELSE total

\* The fields strptime starts from, and a field set from matched text.
StrptimeDefaults == [Y |-> 1900, m |-> 1, d |-> 1, H |-> 0, M |-> 0, S |-> 0, aware |-> FALSE, offset |-> 0]
SetField(f, ch, text) ==
    IF ch = "Y" THEN [f EXCEPT !.Y = DigitsValue(text)]
    ELSE IF ch = "y"
         THEN [f EXCEPT !.Y = IF DigitsValue(text) <= 68 THEN 2000 + DigitsValue(text)
                               ELSE 1900 + DigitsValue(text)]
    ELSE IF ch = "m" THEN [f EXCEPT !.m = DigitsValue(text)]
    ELSE IF ch = "d" THEN [f EXCEPT !.d = DigitsValue(LStrip(text))]
    ELSE IF ch = "H" THEN [f EXCEPT !.H = DigitsValue(text)]
    ELSE IF ch = "M" THEN [f EXCEPT !.M = DigitsValue(text)]
    ELSE IF ch = "S" THEN [f EXCEPT !.S = DigitsValue(text)]
    ELSE IF ch = "z" THEN [f EXCEPT !.aware = TRUE, !.offset = ZoneOffset(text)]
    ELSE f

\* format_regex.match(val): tokens k.. at position p, alternatives tried in
\* order, the first complete match wins: [ok, end, f].
RECURSIVE StrptimeMatch(_, _, _, _, _), StrptimeTry(_, _, _, _, _, _, _)
StrptimeMatch(tokens, k, s, p, f) ==
    IF k > Len(tokens) THEN [ok |-> TRUE, end |-> p, f |-> f]
    ELSE IF tokens[k].kind = "lit"
         THEN IF p <= Len(s) /\ LowerChar(s[p]) = LowerChar(tokens[k].ch)
              THEN StrptimeMatch(tokens, k + 1, s, p + 1, f)
              ELSE [ok |-> FALSE, end |-> p, f |-> f]
    ELSE IF tokens[k].kind = "ws"
         THEN LET run == ClassRun(Item(FALSE, Whitespace, 1, -1, 0), s, p)
              IN  StrptimeTry(tokens, k, s, p, f, [i \in 1..run |-> run - i + 1], 1)
    ELSE StrptimeTry(tokens, k, s, p, f, Candidates(tokens[k].ch, s, p), 1)
StrptimeTry(tokens, k, s, p, f, cands, j) ==
    IF j > Len(cands) THEN [ok |-> FALSE, end |-> p, f |-> f]
    ELSE LET n == cands[j]
             r == StrptimeMatch(tokens, k + 1, s, p + n,
                      IF tokens[k].kind = "dir" THEN SetField(f, tokens[k].ch, SubSeq(s, p, p + n - 1))
                      ELSE f)
         IN  IF r.ok THEN r ELSE StrptimeTry(tokens, k, s, p, f, cands, j + 1)

\* The calendar: leap years, days of a month, days since 1970-01-01.
IsLeap(y) == y % 4 = 0 /\ (y % 100 # 0 \/ y % 400 = 0)
DaysInMonth(y, m) ==
    IF m = 2 THEN (IF IsLeap(y) THEN 29 ELSE 28)
    ELSE IF m \in {4, 6, 9, 11} THEN 30 ELSE 31
DaysFromCivil(y, m, d) ==
    LET yy == IF m <= 2 THEN y - 1 ELSE y
        era == yy \div 400
        yoe == yy - era * 400
        mp == IF m > 2 THEN m - 3 ELSE m + 9
        doy == (153 * mp + 2) \div 5 + d - 1
        doe == yoe * 365 + yoe \div 4 - yoe \div 100 + doy
    IN  era * 146097 + doe - 719468

\* A pd.Timestamp as the model holds it: whole days since 1970-01-01 and
\* seconds of the day, in UTC when aware.  Seconds 60 and 61 wrap into the
\* next minute.
Timestamp(f) ==
    LET total == f.H * 3600 + f.M * 60 + f.S - f.offset
        carry == total \div 86400
    IN  [days |-> DaysFromCivil(f.Y, f.m, f.d) + carry, secs |-> total - carry * 86400,
         aware |-> f.aware]

\* pd.Timestamp.min is 1677-09-21 00:12:43.145224193, pd.Timestamp.max is
\* 2262-04-11 23:47:16.854775807.
TimestampInBounds(t) ==
    LET lo == DaysFromCivil(1677, 9, 21)
        hi == DaysFromCivil(2262, 4, 11)
    IN  /\ t.days > lo \/ (t.days = lo /\ t.secs >= 12 * 60 + 44)
        /\ t.days < hi \/ (t.days = hi /\ t.secs <= 23 * 3600 + 47 * 60 + 16)

\* One string under a strptime format: the Timestamp as a cell, NA for NaT.
CellOfTimestamp(t) == IF TimestampInBounds(t) THEN <<t>> ELSE NA
CellOfMatch(s, r) ==
    IF ~r.ok \/ r.end # Len(s) + 1 THEN NA
    ELSE IF r.f.Y < 1 \/ r.f.d > DaysInMonth(r.f.Y, r.f.m) THEN NA
    ELSE CellOfTimestamp(Timestamp(r.f))
CellOfTokens(s, tokens) ==
    IF BadFormat(tokens) THEN NA
    ELSE CellOfMatch(s, StrptimeMatch(tokens, 1, s, 1, StrptimeDefaults))
StrptimeCell(s, fmt) == CellOfTokens(s, Tokenize(fmt))

\* pd.to_datetime of a column.  With format "any" (pattern None) the format
\* is guessed: guess is the set of strings the guess converts.
to_datetime(x, pattern, infer, guess) ==
    [i \in DOMAIN x |->
        IF IsNa(x[i]) THEN NA
        ELSE IF infer THEN (IF x[i][1] \in guess THEN <<[inferred |-> x[i][1]]>> ELSE NA)
        ELSE StrptimeCell(x[i][1], pattern)]

DateDefault == <<"%", "Y", "-", "%", "m", "-", "%", "d">>
DatetimeDefault == DateDefault \o <<"T", "%", "H", ":", "%", "M", ":", "%", "S", "%", "z">>

\* parse_date and parse_datetime differ in the default pattern and the type
\* they name in the error.  format is default, any or a strptime pattern.
ParseTemporalOf(fieldType, x, format, parsed) ==
    LET invalid == [i \in DOMAIN x |-> ~IsNa(x[i]) /\ IsNa(parsed[i])]
    IN  IF AnyTrue(invalid)
        THEN ValueTypeError(fieldType, format, InvalidValues(x, invalid), NoNote)
        ELSE Series(parsed, "datetime64[ns]")
ParseTemporal(fieldType, default, x, format, guess) ==
    ParseTemporalOf(fieldType, x, format,
                    to_datetime(x, IF format = FormatDefault THEN default ELSE format,
                                format = FormatAny, guess))
parse_date(x, format, guess) == ParseTemporal("date", DateDefault, x, format, guess)
parse_datetime(x, format, guess) == ParseTemporal("datetime", DatetimeDefault, x, format, guess)

----------------------------------------------------------------------------
(* parse.py: parse_field and parse_table *)

\* dict.get(key, default) on a descriptor (a function from keys to values).
Get(d, key, default) == IF key \in DOMAIN d THEN d[key] ELSE default

\* The names of the module parse.py that start with parse_, as <<"parse_", t>>:
\* what globals().get(f"parse_{type}") can find.
SupportedTypes == {"string", "number", "integer", "boolean", "date", "datetime", "year", "geopoint"}
ModuleParseNames ==
    {<<"parse_", t>> : t \in SupportedTypes \cup {"table", "field", "field_constraint"}}

\* parse_field(x, type, **field).  The parser found is called with the keys
\* of field that are among its arguments: parse_table and
\* parse_field_constraint lack a required argument (TypeError; no descriptor
\* has a key schema or constraint), parse_field is called with x alone and
\* parses it as a string.
parse_field(x, field, OPTIONS, guess) ==
    LET type == Get(field, "type", "string")
    IN  IF <<"parse_", type>> \notin ModuleParseNames THEN Raised("NotImplementedError")
        ELSE IF type \in {"string", "field"}
             THEN parse_string(x, IF type = "string" THEN Get(field, "format", FormatDefault)
                                  ELSE FormatDefault)
        ELSE IF type = "number"
             THEN parse_number(x, Get(field, "decimalChar", <<".">>), Get(field, "groupChar", <<>>),
                               Get(field, "bareNumber", TRUE), OPTIONS)
        ELSE IF type = "integer" THEN parse_integer(x, Get(field, "bareNumber", TRUE), OPTIONS)
        ELSE IF type = "boolean"
             THEN parse_boolean(x, Get(field, "trueValues", DefaultTrueValues),
                                Get(field, "falseValues", DefaultFalseValues))
        ELSE IF type = "date" THEN parse_date(x, Get(field, "format", FormatDefault), guess)
        ELSE IF type = "datetime" THEN parse_datetime(x, Get(field, "format", FormatDefault), guess)
        ELSE IF type = "year" THEN parse_year(x)
        ELSE IF type = "geopoint" THEN parse_geopoint(x, Get(field, "format", FormatDefault))
        ELSE Raised("TypeError")

\* df[name] = values
SetColumn(table, name, values) ==
    [table EXCEPT !.rows = [i \in DOMAIN table.rows |-> [table.rows[i] EXCEPT ![name] = values[i]]]]

\* parse_table(df, schema): the fields in order; a type error gets the field
\* name and is collected, a parsed column replaces the raw one, an exception
\* of parse_field ends the loop.  [kind, errors, df, exc].
RECURSIVE ParseTableLoop(_, _, _, _, _, _), ParseTableStep(_, _, _, _, _, _, _)
ParseTableLoop(table, fields, n, errors, OPTIONS, guess) ==
    IF n > Len(fields)
    THEN [kind |-> IF errors # <<>> THEN "errors" ELSE "table", errors |-> errors, df |-> table,
          exc |-> ""]
    ELSE ParseTableStep(table, fields, n, errors, OPTIONS, guess,
                        parse_field(Column(table, fields[n].name), fields[n], OPTIONS, guess))
\* The body of the loop for field n, given the result of parse_field.
ParseTableStep(table, fields, n, errors, OPTIONS, guess, result) ==
    IF result.kind = "raised"
    THEN [kind |-> "raised", errors |-> errors, df |-> table, exc |-> result.exc]
    ELSE IF result.kind = "TypeError"
         THEN ParseTableLoop(table, fields, n + 1,
                  Append(errors, [fieldName |-> fields[n].name] @@ result), OPTIONS, guess)
    ELSE ParseTableLoop(SetColumn(table, fields[n].name, result.values), fields, n + 1,
                        errors, OPTIONS, guess)
parse_table(table, schema, OPTIONS, guess) ==
    ParseTableLoop(table, Get(schema, "fields", <<>>), 1, <<>>, OPTIONS, guess)

----------------------------------------------------------------------------
(* check.py: key constraints *)

\* ConstraintError(fieldName=name, constraintName="required", ...) as built by
\* check_field_constraints for a column with a null.  NaNMarker stands for
\* the values=[float("nan")] of the error.
NaNMarker == <<NA>>
RequiredError(name) ==
    [code |-> "constraint-error", fieldName |-> name,
     constraintName |-> "required", constraintValue |-> TRUE, values |-> NaNMarker]

\* check_field_constraints(x, required=True, field=dict(name=name)), the call
\* check_primary_key makes: only the required branch can add an error.
check_required(x, name) ==
    IF AnyTrue([i \in DOMAIN x |-> IsNa(x[i])]) THEN <<RequiredError(name)>> ELSE <<>>

PrimaryKeyError(key, values) ==
    [code |-> "primary-key-error", primaryKey |-> key, values |-> values]

UniqueKeyError(key, values) ==
    [code |-> "unique-key-error", uniqueKey |-> key, values |-> values]

ForeignKeyError(reference, foreignKey, values) ==
    [code |-> "foreign-key-error", reference |-> reference,
     foreignKey |-> foreignKey, values |-> values]

\* (Variant of PrimaryKeyRequired that looks at the first key field only.)
PrimaryKeyRequiredFirst(table, key) ==
    IF key = <<>> THEN <<>> ELSE check_required(Column(table, Head(key)), Head(key))

\* The required errors of check_primary_key, one per key field, in key order.
RECURSIVE PrimaryKeyRequired(_, _)
PrimaryKeyRequired(table, key) ==
    IF key = <<>> THEN <<>>
    ELSE check_required(Column(table, Head(key)), Head(key))
         \o PrimaryKeyRequired(table, Tail(key))

\* The duplicate test shared by check_primary_key and check_unique_keys:
\* invalid = df.duplicated(subset=key); values of the flagged rows, distinct.
DuplicateMask(table, key) == duplicated(KeyRows(table, key))
DuplicateValues(table, key) ==
    drop_duplicates(SelectMask(KeyRows(table, key), DuplicateMask(table, key)))

check_primary_key(table, primaryKey, skip_required, skip_single) ==
    LET key == primaryKey
        req == IF skip_required THEN <<>> ELSE PrimaryKeyRequired(table, key)
    IN  IF key = <<>> THEN <<>>
        ELSE IF skip_single /\ Len(key) < 2 THEN req
        ELSE IF AnyTrue(DuplicateMask(table, key))
             THEN Append(req, PrimaryKeyError(key, DuplicateValues(table, key)))
             ELSE req

RECURSIVE check_unique_keys(_, _, _)
check_unique_keys(table, uniqueKeys, skip_single) ==
    IF uniqueKeys = <<>> THEN <<>>
    ELSE LET key == Head(uniqueKeys)
             rest == check_unique_keys(table, Tail(uniqueKeys), skip_single)
         IN  IF skip_single /\ Len(key) < 2 THEN rest
             ELSE IF AnyTrue(DuplicateMask(table, key))
                  THEN <<UniqueKeyError(key, DuplicateValues(table, key))>> \o rest
                  ELSE rest

\* constraint.lower() on the spellings the model hands to check_foreign_keys.
Lower(s) ==
    CASE s = "UniqueKey" -> "uniquekey"
      [] s = "PrimaryKey" -> "primarykey"
      [] OTHER -> s

\* The parent key check of check_foreign_keys (perrors).
ParentErrors(parent, pkey, constraint) ==
    IF constraint = "None" THEN <<>>
    ELSE IF Lower(constraint) = "uniquekey" THEN check_unique_keys(parent, <<pkey>>, FALSE)
    ELSE IF Lower(constraint) = "primarykey" THEN check_primary_key(parent, pkey, FALSE, FALSE)
    ELSE <<>>

\* `for e in enumerate(perrors)`: e is the pair (index, error).
Enumerate(perrors) == [i \in DOMAIN perrors |-> <<i - 1, perrors[i]>>]

\* `"fieldName" in e` for the pair e: a tuple holds the string only when one of
\* its two items equals it, and neither an index nor an error object does.
PairContains(e, name) == FALSE

\* The body of the loop over enumerate(perrors).  With the pair as e, the test
\* `"fieldName" in e` fails, and e["values"] subscripts a tuple with a string:
\* TypeError.  The result is [raised, errors].
RECURSIVE ReattributeLoop(_, _, _)
ReattributeLoop(es, parent_name, foreignKey) ==
    IF es = <<>> THEN [raised |-> "", errors |-> <<>>]
    ELSE IF PairContains(Head(es), "fieldName")
         THEN LET rest == ReattributeLoop(Tail(es), parent_name, foreignKey)
              IN  [raised |-> rest.raised, errors |-> <<Head(es)>> \o rest.errors]
         ELSE [raised |-> "TypeError", errors |-> <<>>]

\* x.isin(y) for one cell.
IsIn(c, ys) == \E j \in DOMAIN ys : CellEq(c, ys[j])

\* x.isna().any(axis=1) for one row of the key sub-table.
AnyNa(t) == \E j \in DOMAIN t : IsNa(t[j])

\* The `invalid` mask of check_foreign_keys over the child rows.
\* One column: ~(x.isin(y) | x.isna()).
\* Several columns: ~(pd.concat([y, x]).duplicated().iloc[len(y):] | x.isna().any(axis=1)).
ForeignKeyInvalid(x, y, ckey) ==
    IF Len(ckey) = 1
    THEN [i \in DOMAIN x |-> ~(IsIn(x[i][1], [j \in DOMAIN y |-> y[j][1]]) \/ IsNa(x[i][1]))]
    ELSE LET dup == duplicated(y \o x)
         IN  [i \in DOMAIN x |-> ~(dup[Len(y) + i] \/ AnyNa(x[i]))]

\* The parent table of a foreign key: the child itself for the empty name,
\* references[parent_name] when the name is a key of references, and no
\* table (the descriptor is skipped with `continue`) otherwise.
ResolveParentNoSelf(child, refs, parent_name) ==
    IF parent_name \in DOMAIN refs
    THEN [found |-> TRUE, table |-> refs[parent_name]]
    ELSE [found |-> FALSE, table |-> child]
ResolveParent(child, refs, parent_name) ==
    IF parent_name = "" THEN [found |-> TRUE, table |-> child]
    ELSE IF parent_name \in DOMAIN refs
         THEN [found |-> TRUE, table |-> refs[parent_name]]
         ELSE [found |-> FALSE, table |-> child]

\* check_foreign_keys: the loop over the descriptors, from descriptor number n.
\* acc is [raised, errors, checked]; checked records, per descriptor reached,
\* whether it was skipped and the invalid mask it computed.
RECURSIVE ForeignKeyLoop(_, _, _, _, _, _)
ForeignKeyLoop(child, fks, refs, constraint, n, acc) ==
    IF n > Len(fks) \/ acc.raised # "" THEN acc
    ELSE
    LET foreignKey == fks[n]
        parent_name == foreignKey.reference.resource
        resolved == ResolveParent(child, refs, parent_name)
    IN  IF ~resolved.found
        THEN ForeignKeyLoop(child, fks, refs, constraint, n + 1,
                [acc EXCEPT !.checked = Append(@, [fk |-> n, skipped |-> TRUE, invalid |-> <<>>])])
        ELSE
        LET parent == resolved.table
            ckey == foreignKey.fields
            pkey == foreignKey.reference.fields
            perrors == ParentErrors(parent, pkey, constraint)
            re == IF perrors # <<>> /\ parent.id # child.id
                  THEN ReattributeLoop(Enumerate(perrors), parent_name, foreignKey)
                  ELSE [raised |-> "", errors |-> <<>>]
            x == KeyRows(child, ckey)
            y == KeyRows(parent, pkey)
            invalid == ForeignKeyInvalid(x, y, ckey)
            fkerr == IF AnyTrue(invalid)
                     THEN <<ForeignKeyError(parent_name, foreignKey,
                                            drop_duplicates(SelectMask(x, invalid)))>>
                     ELSE <<>>
        IN  IF re.raised # ""
            THEN [acc EXCEPT !.raised = re.raised]
            ELSE ForeignKeyLoop(child, fks, refs, constraint, n + 1,
                    [raised |-> "",
                     errors |-> acc.errors \o re.errors \o fkerr,
                     checked |-> Append(acc.checked,
                                        [fk |-> n, skipped |-> FALSE, invalid |-> invalid])])

check_foreign_keys(child, fks, refs, constraint) ==
    ForeignKeyLoop(child, fks, refs, constraint, 1,
                   [raised |-> "", errors |-> <<>>, checked |-> <<>>])

----------------------------------------------------------------------------
(* parse.py: parse_field_constraint.  A constraint literal of a descriptor  *)
(* is a JSON value <<py, v>>: py names its Python type (str, int, float,   *)
(* bool) and v is the value (the characters of a str).  A value taken out  *)
(* of a parsed column is <<py, v>> with py the dtype of the column.        *)
(* minimum and maximum are one literal, enum is a list of literals.        *)

Literal(py, v) == <<py, v>>
Py(literal) == literal[1]
Val(literal) == literal[2]

\* ConstraintTypeError(fieldName=..., constraintName=..., constraintValue=...,
\* fieldType=..., fieldFormat=...)
ConstraintTypeError(fieldName, constraintName, constraintValue, fieldType, fieldFormat) ==
    [code |-> "constraint-type-error", fieldName |-> fieldName,
     constraintName |-> constraintName, constraintValue |-> constraintValue,
     fieldType |-> fieldType, fieldFormat |-> fieldFormat]

\* What parse_field_constraint returns: the typed literal(s) or the error.
Returned(kind, value) == [kind |-> kind, value |-> value]

\* X[is_str] = result: the strings of X replaced, in order, by the values of
\* the parsed column.
PutBack(X, is_str, result) ==
    [i \in DOMAIN X |->
        IF is_str[i]
        THEN Literal(result.dtype,
                     result.values[Cardinality({j \in 1..i : is_str[j]})][1])
        ELSE X[i]]

\* Lines 92-102, given the result of parse_field on the strings of X.
ParsedConstraint(x, is_list, X, is_str, constraint, field, result) ==
    IF result.kind = "raised" THEN result
    ELSE IF result.kind = "TypeError"
         THEN Returned("error",
                  ConstraintTypeError(
                      Get(field, "name", ""), constraint,
                      IF is_list THEN Unique(SelectMask(X, is_str)) ELSE x,
                      Get(field, "type", "string"), result.fieldFormat))
    ELSE Returned("value", IF is_list THEN PutBack(X, is_str, result)
                           ELSE PutBack(X, is_str, result)[1])

\* The strings of X as a column of raw cells.
StringCells(X, is_str) ==
    LET strings == SelectMask(X, is_str) IN [i \in DOMAIN strings |-> <<Val(strings[i])>>]

\* parse_field_constraint(x, constraint, **field): literals that are not
\* strings are returned as they are; when some literal is a string, the
\* strings are parsed with the parser of the field.
ParseFieldConstraintOf(x, is_list, X, is_str, constraint, field, OPTIONS, guess) ==
    IF ~AnyTrue(is_str) THEN Returned("value", x)
    ELSE ParsedConstraint(x, is_list, X, is_str, constraint, field,
                          parse_field(StringCells(X, is_str), field, OPTIONS, guess))
IsStr(X) == [i \in DOMAIN X |-> Py(X[i]) = "str"]
parse_field_constraint(x, is_list, constraint, field, OPTIONS, guess) ==
    ParseFieldConstraintOf(x, is_list, IF is_list THEN x ELSE <<x>>,
                           IsStr(IF is_list THEN x ELSE <<x>>), constraint, field, OPTIONS, guess)

----------------------------------------------------------------------------
(* check.py: field constraints.  The constraints of a field are a function  *)
(* from constraint names to values.  A pattern is an alternation (|) of    *)
(* texts without other special characters.  Numbers have at most nine      *)
(* digits.                                                                  *)

ConstraintError(fieldName, constraintName, constraintValue, values) ==
    [code |-> "constraint-error", fieldName |-> fieldName,
     constraintName |-> constraintName, constraintValue |-> constraintValue, values |-> values]

\* x.dropna()
DropNa(x) == SelectMask(x, [i \in DOMAIN x |-> ~IsNa(x[i])])

\* The error of one constraint: none when no value is invalid, else one
\* error with the distinct invalid values, list(x[invalid].unique()).
ErrorIfAny(x, invalid, name, constraintName, constraintValue) ==
    IF AnyTrue(invalid)
    THEN <<ConstraintError(name, constraintName, constraintValue, InvalidValues(x, invalid))>>
    ELSE <<>>

\* s.startswith(prefix)
StartsWith(s, prefix) == Len(prefix) <= Len(s) /\ SubSeq(s, 1, Len(prefix)) = prefix

\* x.str.match("^" + pattern + "$") for one string: re.match of the
\* concatenated text.  Alternation binds weakest, so ^ belongs to the first
\* alternative and $ to the last; re.match anchors every alternative at the
\* start, and $ also matches before a newline that ends the string.
StrMatchAlternatives(s, alts) ==
    \/ \E k \in 1..(Len(alts) - 1) : StartsWith(s, alts[k])
    \/ BeforeEnd(s) = alts[Len(alts)]
    \/ s = alts[Len(alts)]
StrMatch(s, pattern) == StrMatchAlternatives(s, Split(pattern, "|"))

LengthTypes == {"string", "array", "object"}
\* minmax_types with the type boolean added.
MinmaxTypesAndBoolean ==
    {"integer", "number", "date", "time", "datetime", "year", "yearmonth", "boolean"}
MinmaxTypes == {"integer", "number", "date", "time", "datetime", "year", "yearmonth"}

\* The values of a number column, a number literal or a boolean literal as
\* decimals [kind, neg, m, e], and the order of decimals.
Decimal(py, v) ==
    IF py \in {"float", "float64"} THEN v
    ELSE IF py = "bool" THEN FloatFinite(FALSE, IF v THEN 1 ELSE 0, 0)
    ELSE FloatFinite(v < 0, IF v < 0 THEN -v ELSE v, 0)
Sign(a) == IF a.kind = "fin" /\ a.m = 0 THEN 0 ELSE IF a.neg THEN -1 ELSE 1
AbsLess(a, b) ==
    IF a.kind = "inf" THEN FALSE
    ELSE IF b.kind = "inf" THEN TRUE
    ELSE IF a.e + NumDigits(a.m) # b.e + NumDigits(b.m)
         THEN a.e + NumDigits(a.m) < b.e + NumDigits(b.m)
    ELSE a.m * Pow10(9 - NumDigits(a.m)) < b.m * Pow10(9 - NumDigits(b.m))
DecimalLess(a, b) ==
    IF a.kind = "nan" \/ b.kind = "nan" THEN FALSE
    ELSE IF Sign(a) # Sign(b) THEN Sign(a) < Sign(b)
    ELSE IF Sign(a) = 0 THEN FALSE
    ELSE IF Sign(a) = 1 THEN AbsLess(a, b) ELSE AbsLess(b, a)

\* The dtype of a parsed column of a field type.
TemporalTypes == {"date", "datetime"}
DtypeOf(type) ==
    IF type \in TemporalTypes THEN "datetime64[ns]"
    ELSE IF type \in {"integer", "year", "boolean"} THEN "Int64"
    ELSE IF type = "number" THEN "float64" ELSE "object"

\* v <= bound in place of v < bound.
LessOrEqual(type, v, bound) ==
    IF type \in TemporalTypes
    THEN v.days < Val(bound).days \/ (v.days = Val(bound).days /\ v.secs <= Val(bound).secs)
    ELSE /\ ~DecimalLess(Decimal(Py(bound), Val(bound)), Decimal(DtypeOf(type), v))
         /\ Decimal(Py(bound), Val(bound)).kind # "nan"

\* v < bound for a value v of a column of the field type.
Less(type, v, bound) ==
    IF type \in TemporalTypes
    THEN v.days < Val(bound).days \/ (v.days = Val(bound).days /\ v.secs < Val(bound).secs)
    ELSE DecimalLess(Decimal(DtypeOf(type), v), Decimal(Py(bound), Val(bound)))
Greater(type, v, bound) ==
    IF type \in TemporalTypes
    THEN v.days > Val(bound).days \/ (v.days = Val(bound).days /\ v.secs > Val(bound).secs)
    ELSE DecimalLess(Decimal(Py(bound), Val(bound)), Decimal(DtypeOf(type), v))

\* x < bound raises TypeError when x is a column of timestamps and the bound
\* is not a timestamp.
ComparisonRaises(type, bound) == type \in TemporalTypes /\ Py(bound) # "datetime64[ns]"

\* x.isin(enum) for one value of the column.
NumberPy == {"int", "Int64", "float", "float64", "bool"}
ValueEq(type, v, literal) ==
    IF DtypeOf(type) = "datetime64[ns]" THEN Py(literal) = "datetime64[ns]" /\ Val(literal) = v
    ELSE IF DtypeOf(type) = "object" THEN Py(literal) \in {"str", "object"} /\ Val(literal) = v
    ELSE /\ Py(literal) \in NumberPy
         /\ ~DecimalLess(Decimal(DtypeOf(type), v), Decimal(Py(literal), Val(literal)))
         /\ ~DecimalLess(Decimal(Py(literal), Val(literal)), Decimal(DtypeOf(type), v))
         /\ Decimal(Py(literal), Val(literal)).kind # "nan"
\* Membership tested against the first literal of the list only.
IsFirstOfEnum(type, v, enum) == ValueEq(type, v, enum[1])
IsInEnum(type, v, enum) == \E j \in DOMAIN enum : ValueEq(type, v, enum[j])

\* The constraints whose literal is parsed, in the order of the code: minimum
\* and maximum when given on a field of a type of minmax_types, enum when it
\* is given and not empty.
ParsedKeys(constraints, type) ==
    SelectSeq(<<"minimum", "maximum", "enum">>,
              LAMBDA k : /\ k \in DOMAIN constraints
                         /\ IF k = "enum" THEN constraints[k] # <<>> ELSE type \in MinmaxTypes)

\* parse_field_constraint of each of them: the results by constraint name.
RECURSIVE ParsedLiterals(_, _, _, _, _, _)
ParsedLiterals(constraints, field, keys, n, OPTIONS, guess) ==
    IF n > Len(keys) THEN <<>>
    ELSE (keys[n] :> parse_field_constraint(constraints[keys[n]], keys[n] = "enum", keys[n], field,
                                            OPTIONS, guess))
         @@ ParsedLiterals(constraints, field, keys, n + 1, OPTIONS, guess)

\* The exception that ends check_field_constraints: the first, in the order
\* of the code, of an exception of parse_field_constraint and a comparison
\* that raises.  "" when the call returns.
RECURSIVE FirstRaised(_, _, _, _)
FirstRaised(parsed, type, keys, n) ==
    IF n > Len(keys) THEN ""
    ELSE IF parsed[keys[n]].kind = "raised" THEN parsed[keys[n]].exc
    ELSE IF /\ keys[n] # "enum"
            /\ parsed[keys[n]].kind = "value"
            /\ ComparisonRaises(type, parsed[keys[n]].value)
         THEN "TypeError"
    ELSE FirstRaised(parsed, type, keys, n + 1)

\* Lines 131-145 and 146-160: the errors of minimum (less = TRUE) or maximum.
BoundErrors(xd, name, type, constraintName, parsed, less) ==
    IF constraintName \notin DOMAIN parsed THEN <<>>
    ELSE IF parsed[constraintName].kind = "error" THEN <<parsed[constraintName].value>>
    ELSE ErrorIfAny(xd,
                    [i \in DOMAIN xd |->
                        IF less THEN Less(type, xd[i][1], parsed[constraintName].value)
                        ELSE Greater(type, xd[i][1], parsed[constraintName].value)],
                    name, constraintName, parsed[constraintName].value)

\* Lines 172-186: the errors of enum.
EnumErrors(xd, name, type, parsed) ==
    IF "enum" \notin DOMAIN parsed THEN <<>>
    ELSE IF parsed["enum"].kind = "error" THEN <<parsed["enum"].value>>
    ELSE ErrorIfAny(xd, [i \in DOMAIN xd |-> ~IsInEnum(type, xd[i][1], parsed["enum"].value)],
                    name, "enum", parsed["enum"].value)

\* The list returned by check_field_constraints when no exception ends it,
\* given the parsed literals: the branches in the order of the code.  A
\* constraint that is not given is None (False for required and unique).
FieldConstraintErrors(x, xd, constraints, name, type, parsed) ==
    (IF Get(constraints, "required", FALSE) /\ AnyTrue([i \in DOMAIN x |-> IsNa(x[i])])
     THEN <<ConstraintError(name, "required", TRUE, NaNMarker)>> ELSE <<>>)
    \o (IF Get(constraints, "unique", FALSE)
        THEN ErrorIfAny(x, duplicated([i \in DOMAIN x |-> <<x[i]>>]), name, "unique", TRUE)
        ELSE <<>>)
    \o (IF "minLength" \in DOMAIN constraints /\ type \in LengthTypes
        THEN ErrorIfAny(xd, [i \in DOMAIN xd |-> Len(xd[i][1]) < constraints["minLength"]],
                        name, "minLength", constraints["minLength"])
        ELSE <<>>)
    \o (IF "maxLength" \in DOMAIN constraints /\ type \in LengthTypes
        THEN ErrorIfAny(xd, [i \in DOMAIN xd |-> Len(xd[i][1]) > constraints["maxLength"]],
                        name, "minLength", constraints["maxLength"])
        ELSE <<>>)
    \o BoundErrors(xd, name, type, "minimum", parsed, TRUE)
    \o BoundErrors(xd, name, type, "maximum", parsed, FALSE)
    \o (IF Get(constraints, "pattern", <<>>) # <<>> /\ type \in {"string"}
        THEN ErrorIfAny(xd, [i \in DOMAIN xd |-> ~StrMatch(xd[i][1], constraints["pattern"])],
                        name, "pattern", constraints["pattern"])
        ELSE <<>>)
    \o EnumErrors(xd, name, type, parsed)

\* check_field_constraints(x, **constraints, field=field) as [raised, errors]:
\* the exception that ends the call ("" when it returns) and the list
\* returned.
FieldConstraintsOf(x, constraints, field, type, parsed, raised) ==
    [raised |-> raised,
     errors |-> IF raised # "" THEN <<>>
                ELSE FieldConstraintErrors(x, DropNa(x), constraints,
                                           Get(field, "name", "field"), type, parsed)]
FieldConstraintsParsed(x, constraints, field, type, keys, parsed) ==
    FieldConstraintsOf(x, constraints, field, type, parsed, FirstRaised(parsed, type, keys, 1))
FieldConstraintsKeys(x, constraints, field, type, keys, OPTIONS, guess) ==
    FieldConstraintsParsed(x, constraints, field, type, keys,
                           ParsedLiterals(constraints, field, keys, 1, OPTIONS, guess))
FieldConstraints(x, constraints, field, OPTIONS, guess) ==
    FieldConstraintsKeys(x, constraints, field, Get(field, "type", "string"),
                         ParsedKeys(constraints, Get(field, "type", "string")), OPTIONS, guess)

\* options.py: the options of the module as they are set at import.
OptionsOff == [raise_first_invalid_integer |-> FALSE, raise_first_invalid_number |-> FALSE]

\* The list returned by check_field_constraints under the default options.
\* The descriptors of validate in this model declare no minimum, maximum or
\* enum, so the call returns.
check_field_constraints(x, constraints, field) ==
    FieldConstraints(x, constraints, field, OptionsOff, {}).errors

\* check_constraints(df, schema): the errors of the fields, in field order.
RECURSIVE ConstraintsLoop(_, _, _)
ConstraintsLoop(table, fields, n) ==
    IF n > Len(fields) THEN <<>>
    ELSE check_field_constraints(Column(table, fields[n].name),
                                 Get(fields[n], "constraints", <<>>), fields[n])
         \o ConstraintsLoop(table, fields, n + 1)
check_constraints(table, schema) == ConstraintsLoop(table, Get(schema, "fields", <<>>), 1)

----------------------------------------------------------------------------
(* validate.py: the descriptor normalisation of validate.  A descriptor is *)
(* a function from keys to values; the keys of a schema (primaryKey, each  *)
(* unique key, the fields of a foreign key and of its reference) are lists *)
(* of field names in the descriptors of the model, which _as_list returns  *)
(* unchanged.                                                              *)

\* d[key] = value and d.pop(key) on a dict.
Put(d, key, value) == [k \in DOMAIN d \cup {key} |-> IF k = key THEN value ELSE d[k]]
Pop(d, key) == [k \in DOMAIN d \ {key} |-> d[k]]

\* names.index(name): the first position of name, 0 when absent (ValueError).
Index(names, name) ==
    IF \E i \in DOMAIN names : names[i] = name
    THEN CHOOSE i \in DOMAIN names : names[i] = name /\ \A j \in 1..(i - 1) : names[j] # name
    ELSE 0

\* [list(t) for t in set(tuple(k) for k in keys)]: the distinct keys, in the
\* order in which the set iterates.  ord lists every key once and stands for
\* that order, which the hashes of the strings decide.
ListOfSet(keys, ord) ==
    SelectMask(ord, [i \in DOMAIN ord |-> \E j \in DOMAIN keys : keys[j] = ord[i]])

ForeignKeysOf(resource) == Get(resource.schema, "foreignKeys", <<>>)

\* parent = foreignKey["reference"]["resource"] or name
ReferenceParent(foreignKey, name) ==
    IF foreignKey.reference.resource # "" THEN foreignKey.reference.resource ELSE name

\* keys = schema.get("uniqueKeys", []); keys.append(key); schema["uniqueKeys"] = [... set ...]
WithUniqueKey(schema, key, ord) ==
    Put(schema, "uniqueKeys", ListOfSet(Append(Get(schema, "uniqueKeys", <<>>), key), ord))

\* Lines 76-88: the reference fields of every foreign key become a unique
\* key of the resource referred to, from foreign key k of resource r on:
\* [raised, resources].
RECURSIVE AddReferenceKeys(_, _, _, _), AddReferenceKeyAt(_, _, _, _, _)
AddReferenceKeys(resources, r, k, ord) ==
    IF r > Len(resources) THEN [raised |-> "", resources |-> resources]
    ELSE IF k > Len(ForeignKeysOf(resources[r])) THEN AddReferenceKeys(resources, r + 1, 1, ord)
    ELSE AddReferenceKeyAt(resources, r, k, ord,
             Index([j \in DOMAIN resources |-> resources[j].name],
                   ReferenceParent(ForeignKeysOf(resources[r])[k], resources[r].name)))
AddReferenceKeyAt(resources, r, k, ord, i) ==
    IF i = 0 THEN [raised |-> "ValueError", resources |-> resources]
    ELSE AddReferenceKeys(
             [resources EXCEPT ![i].schema =
                 WithUniqueKey(@, ForeignKeysOf(resources[r])[k].reference.fields, ord)],
             r, k + 1, ord)

\* Lines 93-99: a primary key that is not empty becomes a unique key.
MovePrimaryKey(schema, ord) ==
    IF Get(schema, "primaryKey", <<>>) # <<>>
    THEN Pop(WithUniqueKey(schema, schema["primaryKey"], ord), "primaryKey")
    ELSE schema

\* (Variant of SingleKeys in which no unique key becomes a field constraint.)
SingleKeysNone(uniqueKeys) == {}

\* Lines 101-105: `unique`, the fields of the unique keys of one field, and
\* the unique keys that stay.
SingleKeys(uniqueKeys) == {uniqueKeys[i][1] : i \in {j \in DOMAIN uniqueKeys : Len(uniqueKeys[j]) = 1}}
DropSingleKeys(schema) ==
    IF "uniqueKeys" \in DOMAIN schema
    THEN Put(schema, "uniqueKeys",
             SelectMask(schema["uniqueKeys"],
                        [i \in DOMAIN schema["uniqueKeys"] |-> Len(schema["uniqueKeys"][i]) # 1]))
    ELSE schema

\* Lines 107-112: the constraints of a field, with required and unique set.
SetIf(constraints, cond, key) == IF cond THEN Put(constraints, key, TRUE) ELSE constraints
UpdateFieldConstraints(field, required, unique) ==
    Put(field, "constraints",
        SetIf(SetIf(Get(field, "constraints", <<>>), field.name \in required, "required"),
              field.name \in unique, "unique"))

\* Lines 89-112 for one schema; moved is the schema after lines 93-99.
NormaliseKeys(schema, required, moved) ==
    Put(DropSingleKeys(moved), "fields",
        [f \in DOMAIN schema["fields"] |->
            UpdateFieldConstraints(schema["fields"][f], required,
                                   SingleKeys(Get(moved, "uniqueKeys", <<>>)))])
NormaliseSchema(schema, ord) ==
    NormaliseKeys(schema, Range(Get(schema, "primaryKey", <<>>)), MovePrimaryKey(schema, ord))

\* Lines 62-112: [raised, resources].
NormaliseAll(added, ord) ==
    IF added.raised # "" THEN added
    ELSE [raised |-> "",
          resources |-> [i \in DOMAIN added.resources |->
                            [added.resources[i] EXCEPT !.schema = NormaliseSchema(@, ord)]]]
NormaliseDescriptor(resources, ord) == NormaliseAll(AddReferenceKeys(resources, 1, 1, ord), ord)

----------------------------------------------------------------------------
(* validate.py: the loops of validate over the resources *)

\* read_table(resource, path): the table of the files, or the error of the
\* first file pandas cannot read.
SourceError(note) == [code |-> "source-error", note |-> note]
read_table(file) ==
    IF file.kind = "table" THEN [kind |-> "table", df |-> file.table, errors |-> <<>>]
    ELSE [kind |-> "errors", df |-> <<>>, errors |-> <<SourceError(file.note)>>]

\* The constraints handed to one of the checks before parsing.
Only(constraints, key) == [k \in {key} |-> constraints[k]]

\* Lines 131-147 for one field: the checks on the raw values, and the number
\* of calls of check_field_constraints they make.
PreParseKeys(field) ==
    LET type == Get(field, "type", "string")
        constraints == Get(field, "constraints", <<>>)
    IN  (IF type \notin {"string"} /\ "pattern" \in DOMAIN constraints THEN <<"pattern">> ELSE <<>>)
        \o (IF type \notin LengthTypes /\ "minLength" \in DOMAIN constraints
            THEN <<"minLength">> ELSE <<>>)
        \o (IF type \notin LengthTypes /\ "maxLength" \in DOMAIN constraints
            THEN <<"maxLength">> ELSE <<>>)
RECURSIVE PreParseField(_, _, _, _)
PreParseField(x, field, keys, n) ==
    IF n > Len(keys) THEN <<>>
    ELSE check_field_constraints(x, Only(field["constraints"], keys[n]), field)
         \o PreParseField(x, field, keys, n + 1)
RECURSIVE PreParseChecks(_, _, _)
PreParseChecks(table, fields, n) ==
    IF n > Len(fields) THEN [errors |-> <<>>, calls |-> 0]
    ELSE LET rest == PreParseChecks(table, fields, n + 1)
         IN  [errors |-> PreParseField(Column(table, fields[n].name), fields[n],
                                       PreParseKeys(fields[n]), 1) \o rest.errors,
              calls |-> Len(PreParseKeys(fields[n])) + rest.calls]

\* A call of the history: the operation, the position of the resource it is
\* made for, and the names of the table map at the call.
Call(name, i, tables) == [op |-> name, resource |-> i, tables |-> DOMAIN tables]

\* One pass of the loop of lines 115-172 as [kind, errors, df, exc, ops]:
\* what happened to the resource, the errors added to its table of the
\* report, the typed table, the exception raised, and the operations called.
Step(kind, errors, table, exc, ops) ==
    [kind |-> kind, errors |-> errors, df |-> table, exc |-> exc, ops |-> ops]
PreParseOps(pre) == [j \in 1..pre.calls |-> "check_field_constraints"]

\* Lines 154-172: the checks of a typed table.
CheckTable(schema, pre, table) ==
    Step("checked",
         pre.errors \o check_constraints(table, schema)
             \o check_primary_key(table, Get(schema, "primaryKey", <<>>), TRUE, TRUE)
             \o check_unique_keys(table, Get(schema, "uniqueKeys", <<>>), TRUE),
         table, "",
         <<"read_table">> \o PreParseOps(pre)
             \o <<"parse_table", "check_constraints", "check_primary_key", "check_unique_keys">>)

\* (Variant of AfterParse without the `continue` of line 153: a table with
\* type errors is checked and kept like a typed one.)
AfterParseKeepsTable(schema, pre, result) ==
    IF result.kind = "raised"
    THEN Step("raised", <<>>, <<>>, result.exc,
              <<"read_table">> \o PreParseOps(pre) \o <<"parse_table">>)
    ELSE CheckTable(schema, [pre EXCEPT !.errors = @ \o result.errors], result.df)

\* Lines 148-172, given the result of parse_table.
AfterParse(schema, pre, result) ==
    IF result.kind = "raised"
    THEN Step("raised", <<>>, <<>>, result.exc,
              <<"read_table">> \o PreParseOps(pre) \o <<"parse_table">>)
    ELSE IF result.kind = "errors"
         THEN Step("type-error", pre.errors \o result.errors, <<>>, "",
                   <<"read_table">> \o PreParseOps(pre) \o <<"parse_table">>)
    ELSE CheckTable(schema, pre, result.df)

\* Lines 128-172, given the table read.
AfterRead(schema, raw, OPTIONS, guess) ==
    AfterParse(schema, PreParseChecks(raw, Get(schema, "fields", <<>>), 1),
               parse_table(raw, schema, OPTIONS, guess))

\* Lines 116-172 for one resource: valid is the result of the header checks
\* of goodtables, read the result of read_table.
ReadParseCheckOf(resource, valid, read, OPTIONS, guess) ==
    IF ~valid THEN Step("skipped", <<>>, <<>>, "", <<>>)
    ELSE IF read.kind = "errors" THEN Step("read-error", read.errors, <<>>, "", <<"read_table">>)
    ELSE AfterRead(Get(resource, "schema", <<>>), read.df, OPTIONS, guess)

\* (Variant of AfterTable for a single pass: the foreign keys of a resource
\* are checked right after its table.)
AfterTableSinglePass(i, n) == [phase |-> "foreign keys", i |-> i]

\* The position of validate: the loop it is in and the resource it is at.
FirstForeignKey(n) ==
    IF n >= 1 THEN [phase |-> "foreign keys", i |-> 1] ELSE [phase |-> "update", i |-> 0]
FirstTable(n) == IF n >= 1 THEN [phase |-> "tables", i |-> 1] ELSE FirstForeignKey(n)
AfterTable(i, n) == IF i < n THEN [phase |-> "tables", i |-> i + 1] ELSE FirstForeignKey(n)
\* (Variant of AfterForeignKey that leaves the loop after its first pass.)
AfterFirstForeignKey(i, n) == [phase |-> "update", i |-> 0]
AfterForeignKey(i, n) ==
    IF i < n THEN [phase |-> "foreign keys", i |-> i + 1] ELSE [phase |-> "update", i |-> 0]

\* The report of goodtables.validate for the header checks: one table per
\* resource, invalid with the errors of its header.
HeaderError == [code |-> "header-error"]
TableReport(valid) ==
    [valid |-> valid, errors |-> IF valid THEN <<>> ELSE <<HeaderError>>,
     rowCount |-> 0, errorCount |-> IF valid THEN 0 ELSE 1]
RECURSIVE Sum(_)
Sum(s) == IF s = <<>> THEN 0 ELSE Head(s) + Sum(Tail(s))
ReportOf(tables) ==
    [tables |-> tables,
     errorCount |-> Sum([i \in DOMAIN tables |-> tables[i].errorCount]),
     valid |-> \A i \in DOMAIN tables : tables[i].valid]

\* (Variant of UpdatedTable in which the counts of the header checks stay.)
KeptTable(table) == table

\* Lines 186-200: the counts and the flags of the report.
UpdatedTable(table) == [table EXCEPT !.errorCount = Len(table.errors), !.valid = Len(table.errors) = 0]
UpdatedReport(tables) ==
    [tables |-> tables,
     errorCount |-> Sum([i \in DOMAIN tables |-> tables[i].errorCount]),
     valid |-> Sum([i \in DOMAIN tables |-> tables[i].errorCount]) = 0]

----------------------------------------------------------------------------
(* Inputs of the key checks *)

\* All sequences over S of length at most n.
SeqsUpTo(S, n) == UNION {[1..k -> S] : k \in 0..n}

\* Typed cells of the key columns.
Cells == {NA, <<1>>, <<2>>}
ParentCells == {NA, <<1>>}

\* Rows over the columns "a" and "b".
Rows == [{"a", "b"} -> Cells]
ChildRows == {r \in Rows : r["b"] \in ParentCells}
ParentRows == [{"a", "b"} -> ParentCells]

\* Keys (lists of field names) and lists of unique keys.
Keys == {<<"a">>, <<"b">>, <<"a", "b">>}
UniqueKeyLists ==
    {<<>>, <<<<"a">>>>, <<<<"a", "b">>>>, <<<<"b">>, <<"a", "b">>>>, <<<<"a", "b">>, <<"a">>>>}

\* Foreign key descriptors: to the table "B", to the table itself (by the
\* empty name, by its own name "A"), and to a table "Z" that is not among
\* the references.
FK(fields, resource, rfields) ==
    [fields |-> fields, reference |-> [resource |-> resource, fields |-> rfields]]
ForeignKeyLists ==
    {<<FK(<<"a">>, "B", <<"a">>)>>,
     <<FK(<<"a", "b">>, "B", <<"a", "b">>)>>,
     <<FK(<<"a">>, "", <<"b">>)>>,
     <<FK(<<"a", "b">>, "A", <<"b", "a">>)>>,
     <<FK(<<"a">>, "Z", <<"a">>), FK(<<"b">>, "B", <<"a">>)>>,
     <<FK(<<"a", "b">>, "B", <<"a", "b">>), FK(<<"b">>, "Z", <<"b">>)>>,
     <<FK(<<"b">>, "Z", <<"a">>)>>}
ParentConstraints == {"None", "uniquekey", "PrimaryKey"}

NoCall == [none |-> TRUE]

\* The variables of validate while validate does not run.
Idle == [phase |-> "idle", i |-> 0]
ValidateIdle ==
    /\ package = <<>>
    /\ report = <<>>
    /\ dfs = <<>>
    /\ pc = Idle
    /\ calls = <<>>

----------------------------------------------------------------------------
(* Specification SpecKeys: check_unique_keys and check_primary_key on a table *)

InitKeys ==
    /\ df \in {[id |-> "A", rows |-> rs] : rs \in SeqsUpTo(Rows, MaxRows)}
    /\ references = <<>>
    /\ op = ""
    /\ args = NoCall
    /\ out = NoCall
    /\ ValidateIdle

CheckUniqueKeys ==
    \E uniqueKeys \in UniqueKeyLists, skip_single \in BOOLEAN :
        /\ op = ""
        /\ op' = "check_unique_keys"
        /\ args' = [uniqueKeys |-> uniqueKeys, skip_single |-> skip_single]
        /\ out' = [raised |-> "", errors |-> check_unique_keys(df, uniqueKeys, skip_single)]
        /\ UNCHANGED <<df, references>>
        /\ UNCHANGED validateVars

CheckPrimaryKey ==
    \E primaryKey \in Keys \cup {<<>>}, skip_required \in BOOLEAN, skip_single \in BOOLEAN :
        /\ op = ""
        /\ op' = "check_primary_key"
        /\ args' = [primaryKey |-> primaryKey, skip_required |-> skip_required,
                    skip_single |-> skip_single]
        /\ out' = [raised |-> "",
                   errors |-> check_primary_key(df, primaryKey, skip_required, skip_single)]
        /\ UNCHANGED <<df, references>>
        /\ UNCHANGED validateVars

NextKeys == CheckUniqueKeys \/ CheckPrimaryKey

SpecKeys == InitKeys /\ [][NextKeys]_vars

----------------------------------------------------------------------------
(* Specification SpecFK: check_foreign_keys on a child table and references *)

InitFK ==
    /\ df \in {[id |-> "A", rows |-> rs] : rs \in SeqsUpTo(ChildRows, MaxChildRows)}
    /\ \E rs \in SeqsUpTo(ParentRows, MaxParentRows) :
           references = [n \in {"A", "B"} |->
                            IF n = "A" THEN df ELSE [id |-> "B", rows |-> rs]]
    /\ op = ""
    /\ args = NoCall
    /\ out = NoCall
    /\ ValidateIdle

CheckForeignKeys ==
    \E fks \in ForeignKeyLists, constraint \in ParentConstraints :
        /\ op = ""
        /\ op' = "check_foreign_keys"
        /\ args' = [foreignKeys |-> fks, constraint |-> constraint]
        /\ out' = check_foreign_keys(df, fks, references, constraint)
        /\ UNCHANGED <<df, references>>
        /\ UNCHANGED validateVars

NextFK == CheckForeignKeys

SpecFK == InitFK /\ [][NextFK]_vars

----------------------------------------------------------------------------
(* Specification SpecParse: parse_field on a raw column *)

\* The field descriptors parse_field is called with, each with the raw values
\* its column is drawn from, the OPTIONS and the outcomes of format guessing.
ParseCase(field, pool, options, guesses) ==
    [field |-> field, pool |-> pool, options |-> options, guesses |-> guesses]
ParseCases == {
    \* no type: string
    ParseCase([name |-> "x"],
              {<<"a">>},
              {OptionsOff}, {{}}),
    \* string
    ParseCase([name |-> "x", type |-> "string"],
              {<<"a">>, <<"a", "@", "b", ".", "c">>},
              {OptionsOff}, {{}}),
    \* string, email
    ParseCase([name |-> "x", type |-> "string", format |-> <<"e", "m", "a", "i", "l">>],
              {<<"a", "@", "b", ".", "c">>, <<"A", ".", "b", "@", "c", "-", "d", ".", "e", "f">>, <<"a", "@", "b">>, <<"a", ".", ".", "b", "@", "c", ".", "d">>},
              {OptionsOff}, {{}}),
    \* string, uri
    ParseCase([name |-> "x", type |-> "string", format |-> <<"u", "r", "i">>],
              {<<"h", "t", "t", "p", ":", "/", "/", "a">>, <<"a", ":", "b">>, <<"h", "t", "t", "p", ":", "/">>, <<"a", " ", "b", ":", "c">>},
              {OptionsOff}, {{}}),
    \* string, uuid
    ParseCase([name |-> "x", type |-> "string", format |-> <<"u", "u", "i", "d">>],
              {<<"1", "2", "3", "e", "4", "5", "6", "7", "-", "e", "8", "9", "b", "-", "1", "2", "d", "3", "-", "a", "4", "5", "6", "-", "4", "2", "6", "6", "1", "4", "1", "7", "4", "0", "0", "0">>, <<"1", "2", "3", "E", "4", "5", "6", "7", "E", "8", "9", "B", "1", "2", "D", "3", "A", "4", "5", "6", "4", "2", "6", "6", "1", "4", "1", "7", "4", "0", "0", "0">>, <<"1", "2", "3", "e", "4", "5", "6", "7">>, <<"g", "2", "3", "e", "4", "5", "6", "7", "-", "e", "8", "9", "b", "-", "1", "2", "d", "3", "-", "a", "4", "5", "6", "-", "4", "2", "6", "6", "1", "4", "1", "7", "4", "0", "0", "0">>},
              {OptionsOff}, {{}}),
    \* string, binary
    ParseCase([name |-> "x", type |-> "string", format |-> <<"b", "i", "n", "a", "r", "y">>],
              {<<"Y", "W", "5", "5">>, <<"Y", "Q", "=", "=">>, <<"Y", "W", "5">>, <<"Y">>},
              {OptionsOff}, {{}}),
    \* string, unknown format
    ParseCase([name |-> "x", type |-> "string", format |-> <<"h", "t", "m", "l">>],
              {<<"a">>},
              {OptionsOff}, {{}}),
    \* number
    ParseCase([name |-> "x", type |-> "number"],
              {<<"1", ".", "5">>, <<"n", "a", "n">>, <<"-", "i", "n", "f">>, <<"x">>, <<"$", "1">>},
              {OptionsOff, [OptionsOff EXCEPT !.raise_first_invalid_number = TRUE]}, {{}}),
    \* number, decimalChar
    ParseCase([name |-> "x", type |-> "number", decimalChar |-> <<",">>],
              {<<"1", ",", "5">>, <<"1", ".", "5">>, <<"1", ",", "5", ",", "0">>, <<"x">>},
              {OptionsOff, [OptionsOff EXCEPT !.raise_first_invalid_number = TRUE]}, {{}}),
    \* number, groupChar
    ParseCase([name |-> "x", type |-> "number", groupChar |-> <<",">>],
              {<<"1", ",", "0", "0", "0">>, <<"1", ",", "0", ",", "0", ".", "5">>, <<",">>, <<"x">>},
              {OptionsOff, [OptionsOff EXCEPT !.raise_first_invalid_number = TRUE]}, {{}}),
    \* number, bareNumber false
    ParseCase([name |-> "x", type |-> "number", bareNumber |-> FALSE],
              {<<"$", "1">>, <<"1", ".", "5", "%">>, <<"1", " ", "2">>, <<"x">>, <<"n", "a", "n">>},
              {OptionsOff, [OptionsOff EXCEPT !.raise_first_invalid_number = TRUE]}, {{}}),
    \* number, bareNumber false, groupChar and decimalChar
    ParseCase([name |-> "x", type |-> "number", bareNumber |-> FALSE, groupChar |-> <<",">>,
               decimalChar |-> <<";">>],
              {<<"$", "1", ",", "0", "0", "0">>, <<"1", ";", "5", " ", "k", "g">>,
               <<"1", ",", "2", ";", "5", ";", "1">>, <<"1", ".", "5">>},
              {OptionsOff}, {{}}),
    \* integer
    ParseCase([name |-> "x", type |-> "integer"],
              {<<"1">>, <<" ", "1", "_", "0", " ">>, <<"-", "2">>, <<"1", ".", "5">>, <<"x">>},
              {OptionsOff, [OptionsOff EXCEPT !.raise_first_invalid_integer = TRUE]}, {{}}),
    \* integer, 64 bits
    ParseCase([name |-> "x", type |-> "integer"],
              {<<"1">>, <<"9", "2", "2", "3", "3", "7", "2", "0", "3", "6", "8", "5", "4", "7", "7", "5", "8", "0", "7">>, <<"9", "2", "2", "3", "3", "7", "2", "0", "3", "6", "8", "5", "4", "7", "7", "5", "8", "0", "8">>, <<"x">>},
              {OptionsOff, [OptionsOff EXCEPT !.raise_first_invalid_integer = TRUE]}, {{}}),
    \* integer, bareNumber false
    ParseCase([name |-> "x", type |-> "integer", bareNumber |-> FALSE],
              {<<"$", "1">>, <<"1", "2", "a", "b", "3", "4">>, <<"x">>, <<"1">>},
              {OptionsOff, [OptionsOff EXCEPT !.raise_first_invalid_integer = TRUE]}, {{}}),
    \* boolean
    ParseCase([name |-> "x", type |-> "boolean"],
              {<<"t", "r", "u", "e">>, <<"0">>, <<"y", "e", "s">>, <<"T", "R", "U", "E">>},
              {OptionsOff}, {{}}),
    \* boolean, own values
    ParseCase([name |-> "x", type |-> "boolean", trueValues |-> {<<"y", "e", "s">>}, falseValues |-> {<<"n", "o">>}],
              {<<"y", "e", "s">>, <<"n", "o">>, <<"t", "r", "u", "e">>},
              {OptionsOff}, {{}}),
    \* date
    ParseCase([name |-> "x", type |-> "date"],
              {<<"2", "0", "2", "0", "-", "0", "1", "-", "3", "1">>, <<"2", "0", "2", "0", "-", "0", "2", "-", "3", "0">>, <<"3", "1", "/", "0", "1", "/", "2", "0">>, <<"1", "6", "0", "0", "-", "0", "1", "-", "0", "1">>, <<"2", "0", "2", "0", "-", "1", "-", "5">>},
              {OptionsOff}, {{}}),
    \* date, pattern
    ParseCase([name |-> "x", type |-> "date", format |-> <<"%", "d", "/", "%", "m", "/", "%", "y">>],
              {<<"3", "1", "/", "0", "1", "/", "2", "0">>, <<"2", "0", "2", "0", "-", "0", "1", "-", "3", "1">>, <<"1", "/", "2", "/", "0", "3">>, <<"3", "1", "/", "0", "2", "/", "2", "0">>},
              {OptionsOff}, {{}}),
    \* date, any
    ParseCase([name |-> "x", type |-> "date", format |-> <<"a", "n", "y">>],
              {<<"2", "0", "2", "0", "/", "1", "2", "/", "3", "1">>, <<"J", "a", "n", " ", "5">>, <<"x">>},
              {OptionsOff}, SUBSET {<<"2", "0", "2", "0", "/", "1", "2", "/", "3", "1">>, <<"J", "a", "n", " ", "5">>, <<"x">>}),
    \* datetime
    ParseCase([name |-> "x", type |-> "datetime"],
              {<<"2", "0", "2", "0", "-", "1", "2", "-", "3", "1", "T", "1", "2", ":", "3", "4", ":", "5", "6", "Z">>, <<"2", "0", "2", "0", "-", "1", "2", "-", "3", "1", "T", "1", "2", ":", "3", "4", ":", "5", "6", "+", "0", "1", ":", "0", "0">>, <<"2", "0", "2", "0", "-", "1", "2", "-", "3", "1", "T", "2", "4", ":", "0", "0", ":", "0", "0", "Z">>, <<"2", "0", "2", "0", "-", "1", "2", "-", "3", "1">>},
              {OptionsOff}, {{}}),
    \* datetime, pattern
    ParseCase([name |-> "x", type |-> "datetime", format |-> <<"%", "Y", "/", "%", "m", "/", "%", "d", " ", "%", "H", ":", "%", "M", ":", "%", "S">>],
              {<<"2", "0", "2", "0", "/", "1", "2", "/", "3", "1", " ", "0", "0", ":", "0", "0", ":", "0", "0">>, <<"2", "0", "2", "0", "/", "1", "2", "/", "3", "1", " ", " ", "1", ":", "2", ":", "3">>, <<"2", "0", "2", "0", "/", "1", "2", "/", "3", "1">>, <<"2", "0", "2", "0", "/", "1", "2", "/", "3", "1", " ", "0", "0", ":", "0", "0", ":", "6", "1">>},
              {OptionsOff}, {{}}),
    \* datetime, any
    ParseCase([name |-> "x", type |-> "datetime", format |-> <<"a", "n", "y">>],
              {<<"2", "0", "2", "0", "/", "1", "2", "/", "3", "1", " ", "0", "0", ":", "0", "0", ":", "0", "0">>, <<"n", "o", "o", "n">>},
              {OptionsOff}, SUBSET {<<"2", "0", "2", "0", "/", "1", "2", "/", "3", "1", " ", "0", "0", ":", "0", "0", ":", "0", "0">>, <<"n", "o", "o", "n">>}),
    \* year
    ParseCase([name |-> "x", type |-> "year"],
              {<<"2", "0", "2", "0">>, <<"-", "4", "4">>, <<"x">>, <<"1", "2", "a", "b", "3", "4">>, <<"9", "9", "9", "9", "9", "9", "9", "9", "9", "9", "9", "9", "9", "9", "9", "9", "9", "9", "9", "9">>},
              {OptionsOff}, {{}}),
    \* geopoint
    ParseCase([name |-> "x", type |-> "geopoint"],
              {<<"0", ",", " ", "1">>, <<"0", ",", "1">>, <<"1", ",", "2", ",", "3">>, <<"x">>},
              {OptionsOff}, {{}}),
    \* geopoint, array
    ParseCase([name |-> "x", type |-> "geopoint", format |-> <<"a", "r", "r", "a", "y">>],
              {<<"[", "0", ",", " ", "1", "]">>, <<" ", "[", " ", "1", ".", "5", ",", "-", "2", " ", "]", " ">>, <<"[", "1", ",", "2", ",", "3", "]">>, <<"[", "1", "]">>},
              {OptionsOff}, {{}}),
    \* geopoint, object
    ParseCase([name |-> "x", type |-> "geopoint", format |-> <<"o", "b", "j", "e", "c", "t">>],
              {<<"{", "\"", "l", "o", "n", "\"", ":", " ", "0", ",", " ", "\"", "l", "a", "t", "\"", ":", " ", "1", "}">>, <<"{", "\"", "l", "a", "t", "\"", ":", " ", "1", ",", " ", "\"", "l", "o", "n", "\"", ":", " ", "0", "}">>, <<"{", "\"", "l", "o", "n", "\"", ":", " ", "1", "}">>, <<"{", "\"", "l", "o", "n", "\"", ":", " ", "a", ",", " ", "\"", "l", "a", "t", "\"", ":", " ", "1", "}">>},
              {OptionsOff}, {{}}),
    \* geopoint, unknown format
    ParseCase([name |-> "x", type |-> "geopoint", format |-> <<"w", "k", "t">>],
              {<<"0", ",", " ", "1">>},
              {OptionsOff}, {{}}),
    \* type 'time'
    ParseCase([name |-> "x", type |-> "time"],
              {<<"a">>, <<"1">>},
              {OptionsOff}, {{}}),
    \* type 'yearmonth'
    ParseCase([name |-> "x", type |-> "yearmonth"],
              {<<"a">>, <<"1">>},
              {OptionsOff}, {{}}),
    \* type 'duration'
    ParseCase([name |-> "x", type |-> "duration"],
              {<<"a">>, <<"1">>},
              {OptionsOff}, {{}}),
    \* type 'any'
    ParseCase([name |-> "x", type |-> "any"],
              {<<"a">>, <<"1">>},
              {OptionsOff}, {{}}),
    \* type 'array'
    ParseCase([name |-> "x", type |-> "array"],
              {<<"a">>, <<"1">>},
              {OptionsOff}, {{}}),
    \* type 'object'
    ParseCase([name |-> "x", type |-> "object"],
              {<<"a">>, <<"1">>},
              {OptionsOff}, {{}}),
    \* type 'geojson'
    ParseCase([name |-> "x", type |-> "geojson"],
              {<<"a">>, <<"1">>},
              {OptionsOff}, {{}}),
    \* type 'table'
    ParseCase([name |-> "x", type |-> "table"],
              {<<"a">>, <<"1">>},
              {OptionsOff}, {{}}),
    \* type 'field'
    ParseCase([name |-> "x", type |-> "field"],
              {<<"a">>, <<"1">>},
              {OptionsOff}, {{}}),
    \* type 'field_constraint'
    ParseCase([name |-> "x", type |-> "field_constraint"],
              {<<"a">>, <<"1">>},
              {OptionsOff}, {{}}),
    \* type 'String'
    ParseCase([name |-> "x", type |-> "String"],
              {<<"a">>, <<"1">>},
              {OptionsOff}, {{}}),
    \* type ''
    ParseCase([name |-> "x", type |-> ""],
              {<<"a">>, <<"1">>},
              {OptionsOff}, {{}})
    }

RawTable(x) == [id |-> "A", rows |-> [i \in DOMAIN x |-> [x |-> x[i]]]]

InitParse ==
    \E c \in ParseCases :
        \E x \in SeqsUpTo({<<s>> : s \in c.pool} \cup {NA}, MaxRows),
           OPTIONS \in c.options, guess \in c.guesses :
            /\ df = RawTable(x)
            /\ references = <<>>
            /\ op = ""
            /\ args = [field |-> c.field, OPTIONS |-> OPTIONS, guess |-> guess]
            /\ out = NoCall
            /\ ValidateIdle

ParseField ==
    /\ op = ""
    /\ op' = "parse_field"
    /\ out' = parse_field(Column(df, "x"), args.field, args.OPTIONS, args.guess)
    /\ UNCHANGED <<df, references, args>>
    /\ UNCHANGED validateVars

NextParse == ParseField
SpecParse == InitParse /\ [][NextParse]_vars

----------------------------------------------------------------------------
(* Specification SpecConstraints: check_field_constraints on a typed column *)
(* and parse_field_constraint on the literals of its constraints            *)

MaxValues == 2

\* An optional entry of a descriptor, and the constraints made of optional
\* entries: each option is <<>> (the key is absent) or <<value>>.
Entry(key, option) == IF option = <<>> THEN <<>> ELSE key :> option[1]
Flag(key, set) == IF set THEN key :> TRUE ELSE <<>>
Constraints(required, unique, minLength, maxLength, minimum, maximum, pattern, enum) ==
    Flag("required", required) @@ Flag("unique", unique) @@ Entry("minLength", minLength)
        @@ Entry("maxLength", maxLength) @@ Entry("minimum", minimum)
        @@ Entry("maximum", maximum) @@ Entry("pattern", pattern) @@ Entry("enum", enum)
Absent == <<>>
Given(S) == {<<v>> : v \in S}

Str(s) == Literal("str", s)
January == <<"2", "0", "2", "0", "-", "0", "1", "-", "0", "1">>
February == <<"2", "0", "2", "0", "-", "0", "2", "-", "0", "1">>
TwentyNines == <<"9", "9", "9", "9", "9", "9", "9", "9", "9", "9",
                 "9", "9", "9", "9", "9", "9", "9", "9", "9", "9">>

\* The columns of a field type and the constraints declared on it:
\* [field, cells, constraints].
IntegerCase ==
    [field |-> [name |-> "x", type |-> "integer"],
     cells |-> {NA, <<1>>, <<2>>, <<3>>},
     constraints |->
        {Constraints(required, unique, Absent, IF others THEN <<0>> ELSE Absent, minimum,
                     maximum, IF others THEN <<<<"1">>>> ELSE Absent, enum) :
            required \in BOOLEAN, unique \in BOOLEAN, others \in BOOLEAN,
            minimum \in {Absent} \cup Given({Str(<<"2">>), Str(<<"x">>), Literal("int", 3),
                                             Literal("float", FloatFinite(FALSE, 15, -1)),
                                             Str(TwentyNines)}),
            maximum \in {Absent} \cup Given({Str(<<"2">>), Str(<<"1", ".", "5">>),
                                             Literal("bool", TRUE)}),
            enum \in {Absent} \cup Given({<<>>, <<Str(<<"1">>), Str(<<"2">>)>>,
                                          <<Str(<<"x">>), Str(<<"1">>), Str(<<"x">>)>>,
                                          <<Str(<<"1">>), Literal("int", 3)>>})}]
StringCase ==
    [field |-> [name |-> "x", type |-> "string"],
     cells |-> {NA, <<<<"a">>>>, <<<<"b">>>>, <<<<"a", "b">>>>, <<<<"a", "\n">>>>},
     constraints |->
        {Constraints(required, unique, minLength, maxLength, minimum, Absent, pattern, enum) :
            required \in BOOLEAN, unique \in BOOLEAN,
            minLength \in {Absent, <<2>>}, maxLength \in {Absent, <<1>>},
            minimum \in {Absent, <<Str(<<"b">>)>>},
            pattern \in {Absent} \cup Given({<<"a">>, <<"a", "|", "b">>, <<"a", "b", "|", "b">>}),
            enum \in {Absent} \cup Given({<<Str(<<"a">>), Str(<<"b">>)>>})}]
BooleanCase ==
    [field |-> [name |-> "x", type |-> "boolean"],
     cells |-> {NA, <<0>>, <<1>>},
     constraints |->
        {Constraints(required, unique, minLength, Absent, minimum, maximum, pattern, enum) :
            required \in BOOLEAN, unique \in BOOLEAN,
            minLength \in {Absent, <<2>>},
            minimum \in {Absent, <<Str(<<"1">>)>>, <<Str(<<"x">>)>>},
            maximum \in {Absent, <<Literal("int", 0)>>},
            pattern \in {Absent, <<<<"1">>>>},
            enum \in {Absent} \cup Given({<<Str(<<"t", "r", "u", "e">>)>>, <<Str(<<"y">>)>>})}]
DateCase ==
    [field |-> [name |-> "x", type |-> "date"],
     cells |-> {NA, StrptimeCell(January, DateDefault), StrptimeCell(February, DateDefault)},
     constraints |->
        {Constraints(required, unique, Absent, Absent, minimum, maximum, Absent, enum) :
            required \in BOOLEAN, unique \in BOOLEAN,
            minimum \in {Absent} \cup Given({Str(February), Str(<<"x">>), Literal("int", 5)}),
            maximum \in {Absent} \cup Given({Str(January), Literal("float", FloatFinite(FALSE, 15, -1))}),
            enum \in {Absent} \cup Given({<<Str(January)>>, <<Str(January), Str(<<"x">>)>>})}]
ConstraintCases == {IntegerCase, StringCase, BooleanCase, DateCase}

TypedTable(x) == [id |-> "A", rows |-> [i \in DOMAIN x |-> [x |-> x[i]]]]

InitConstraints ==
    \E c \in ConstraintCases :
        \E x \in SeqsUpTo(c.cells, MaxValues), constraints \in c.constraints :
            /\ df = TypedTable(x)
            /\ references = <<>>
            /\ op = ""
            /\ args = [field |-> c.field, constraints |-> constraints]
            /\ out = NoCall
            /\ ValidateIdle

\* check_field_constraints(df["x"], **constraints, field=field)
CheckFieldConstraints ==
    /\ op = ""
    /\ op' = "check_field_constraints"
    /\ out' = FieldConstraints(Column(df, "x"), args.constraints, args.field, OptionsOff, {})
    /\ UNCHANGED <<df, references, args>>
    /\ UNCHANGED validateVars

\* parse_field_constraint(constraints[constraint], constraint, **field)
ParseFieldConstraint ==
    \E constraint \in DOMAIN args.constraints \cap {"minimum", "maximum", "enum"} :
        /\ op = ""
        /\ op' = "parse_field_constraint"
        /\ out' = [constraint |-> constraint,
                   result |-> parse_field_constraint(args.constraints[constraint],
                                  constraint = "enum", constraint, args.field, OptionsOff, {})]
        /\ UNCHANGED <<df, references, args>>
        /\ UNCHANGED validateVars

NextConstraints == CheckFieldConstraints \/ ParseFieldConstraint
SpecConstraints == InitConstraints /\ [][NextConstraints]_vars

----------------------------------------------------------------------------
(* Specification SpecValidate: validate on a data package *)

\* Field descriptors and raw cells of the packages.
IdField == [name |-> "id", type |-> "integer"]
RefField == [name |-> "ref", type |-> "integer"]
Raw(s) == <<s>>
BigInteger ==
    <<"9", "2", "2", "3", "3", "7", "2", "0", "3", "6", "8", "5", "4", "7", "7", "5", "8", "0", "8">>
RawIds == {Raw(<<"1">>), Raw(<<"2">>), Raw(<<"x">>), NA}

\* A file read as a table of one column id, or of the columns id and ref.
IdTable(name, ids) == [id |-> name, rows |-> [i \in DOMAIN ids |-> [id |-> ids[i]]]]
IdRefTable(name, pairs) ==
    [id |-> name, rows |-> [i \in DOMAIN pairs |-> [id |-> pairs[i][1], ref |-> pairs[i][2]]]]
File(table) == [kind |-> "table", table |-> table]
Unreadable == [kind |-> "error", note |-> "No such file or directory"]

\* The schemas of a package of one resource "A": no key, a primary key, a
\* primary key on a field with constraints checked before parsing, a unique
\* key, a foreign key to the table itself, a foreign key to a resource that
\* is not in the package, and a string field with constraints.
SingleSchemas ==
    {[fields |-> <<IdField>>],
     [fields |-> <<IdField>>, primaryKey |-> <<"id">>],
     [fields |-> <<IdField @@ [constraints |-> [pattern |-> <<"1">>, minLength |-> 2,
                                                  maxLength |-> 0]]>>,
      primaryKey |-> <<"id">>],
     [fields |-> <<IdField>>, uniqueKeys |-> <<<<"id">>>>],
     [fields |-> <<IdField>>, foreignKeys |-> <<FK(<<"id">>, "", <<"id">>)>>],
     [fields |-> <<IdField>>, foreignKeys |-> <<FK(<<"id">>, "Z", <<"id">>)>>],
     [fields |-> <<[name |-> "id", type |-> "string",
                    constraints |-> [pattern |-> <<"1">>, minLength |-> 2, maxLength |-> 0]]>>]}

\* The input of validate: the resources of the descriptor, the result of the
\* header checks and the file of each, and return_tables.
ValidateInput(source, header, files, return_tables) ==
    [source |-> source, header |-> header, files |-> files, return_tables |-> return_tables]
SinglePackages ==
    {ValidateInput(<<[name |-> "A", schema |-> schema]>>, <<TRUE>>, <<File(IdTable("A", ids))>>,
                   return_tables) :
        schema \in SingleSchemas, ids \in SeqsUpTo(RawIds, MaxRows), return_tables \in BOOLEAN}
    \cup {ValidateInput(<<[name |-> "A", schema |-> schema]>>, <<header>>, <<file>>, FALSE) :
            schema \in SingleSchemas, header \in BOOLEAN,
            file \in {Unreadable, File(IdTable("A", <<Raw(<<"1">>)>>))}}

\* The packages of two resources "A" (id) and "B" (id, ref), in either
\* order: A with a primary key and, or not, a foreign key to B; B with a
\* foreign key to A, to itself by the empty name or by its own name, and
\* without unique keys, with the same two fields as unique key in both
\* orders, or with one unique key declared twice; each file with a valid or
\* invalid header, readable or not.
ASchemas ==
    {[fields |-> <<IdField>>, primaryKey |-> <<"id">>],
     [fields |-> <<IdField>>, primaryKey |-> <<"id">>,
      foreignKeys |-> <<FK(<<"id">>, "B", <<"ref">>)>>]}
BSchemas ==
    {[fields |-> <<IdField, RefField>>, foreignKeys |-> <<FK(<<"ref">>, parent, <<"id">>)>>] @@ keys :
        parent \in {"A", "", "B"},
        keys \in {<<>>, [uniqueKeys |-> <<<<"id", "ref">>, <<"ref", "id">>>>],
                  [uniqueKeys |-> <<<<"id", "ref">>, <<"id", "ref">>>>]}}
ATables ==
    {IdTable("A", <<Raw(<<"1">>), Raw(<<"2">>)>>), IdTable("A", <<Raw(<<"x">>)>>),
     IdTable("A", <<Raw(BigInteger)>>)}
BTables ==
    {IdRefTable("B", <<<<Raw(<<"1">>), Raw(<<"1">>)>>>>),
     IdRefTable("B", <<<<Raw(<<"1">>), Raw(<<"1">>)>>, <<Raw(<<"1">>), Raw(<<"3">>)>>>>),
     IdRefTable("B", <<<<Raw(<<"2">>), NA>>, <<Raw(<<"2">>), NA>>>>)}
Swap(input) ==
    [input EXCEPT !.source = <<@[2], @[1]>>, !.header = <<@[2], @[1]>>, !.files = <<@[2], @[1]>>]
PairPackagesAB ==
    {ValidateInput(<<[name |-> "A", schema |-> a], [name |-> "B", schema |-> b]>>,
                   <<ha, hb>>,
                   <<IF ra THEN File(ta) ELSE Unreadable, IF rb THEN File(tb) ELSE Unreadable>>,
                   FALSE) :
        a \in ASchemas, b \in BSchemas, ta \in ATables, tb \in BTables,
        ha \in BOOLEAN, hb \in BOOLEAN, ra \in BOOLEAN, rb \in BOOLEAN}
PairPackages == PairPackagesAB \cup {Swap(input) : input \in PairPackagesAB}

\* The orders in which a set of keys can iterate.
AllKeys == {<<"id">>, <<"ref">>, <<"id", "ref">>, <<"ref", "id">>}
KeyOrders ==
    {ord \in [1..Cardinality(AllKeys) -> AllKeys] :
        \A i, j \in DOMAIN ord : i # j => ord[i] # ord[j]}

InitValidate ==
    /\ args \in SinglePackages \cup PairPackages
    /\ df = <<>>
    /\ references = <<>>
    /\ op = "validate"
    /\ out = NoCall
    /\ package = [resources |-> args.source]
    /\ report = ReportOf([i \in DOMAIN args.header |-> TableReport(args.header[i])])
    /\ dfs = <<>>
    /\ pc = [phase |-> "normalise", i |-> 0]
    /\ calls = <<>>

\* validate raises: the exception leaves the function.
Raise(exc) ==
    /\ pc' = [phase |-> "raised", i |-> pc.i]
    /\ out' = Raised(exc)

\* Lines 59-112: the descriptor is normalised in place.
ApplyNormalise(result) ==
    IF result.raised # ""
    THEN Raise(result.raised) /\ UNCHANGED package
    ELSE /\ package' = [package EXCEPT !.resources = result.resources]
         /\ pc' = FirstTable(Len(package.resources))
         /\ UNCHANGED out
Normalise ==
    /\ pc.phase = "normalise"
    /\ \E ord \in KeyOrders : ApplyNormalise(NormaliseDescriptor(package.resources, ord))
    /\ UNCHANGED <<df, references, op, args, report, dfs, calls>>

\* Lines 115-172: one pass of the loop over the resources.
ApplyStep(i, name, step) ==
    /\ calls' = calls \o [j \in DOMAIN step.ops |-> Call(step.ops[j], i, dfs)]
    /\ IF step.kind = "raised"
       THEN Raise(step.exc) /\ UNCHANGED <<report, dfs>>
       ELSE /\ report' = [report EXCEPT
                             !.tables[i].errors = @ \o step.errors,
                             !.tables[i].rowCount =
                                 IF step.kind = "checked" THEN Len(step.df.rows) ELSE @]
            /\ dfs' = IF step.kind = "checked" THEN Put(dfs, name, step.df) ELSE dfs
            /\ pc' = AfterTable(i, Len(package.resources))
            /\ UNCHANGED out
ReadParseCheck ==
    /\ pc.phase = "tables"
    /\ ApplyStep(pc.i, package.resources[pc.i].name,
                 ReadParseCheckOf(package.resources[pc.i], report.tables[pc.i].valid,
                                  read_table(args.files[pc.i]), OptionsOff, {}))
    /\ UNCHANGED <<df, references, op, args, package>>

\* Lines 174-184: one pass of the loop over the foreign keys.
ApplyForeignKeys(i, result) ==
    /\ calls' = Append(calls, Call("check_foreign_keys", i, dfs))
    /\ IF result.raised # ""
       THEN Raise(result.raised) /\ UNCHANGED report
       ELSE /\ report' = [report EXCEPT !.tables[i].errors = @ \o result.errors]
            /\ pc' = AfterForeignKey(i, Len(package.resources))
            /\ UNCHANGED out
CheckForeignKeysOf ==
    /\ pc.phase = "foreign keys"
    /\ IF package.resources[pc.i].name \in DOMAIN dfs
       THEN ApplyForeignKeys(pc.i,
                check_foreign_keys(dfs[package.resources[pc.i].name],
                                   ForeignKeysOf(package.resources[pc.i]), dfs, "None"))
       ELSE /\ pc' = AfterForeignKey(pc.i, Len(package.resources))
            /\ UNCHANGED <<report, calls, out>>
    /\ UNCHANGED <<df, references, op, args, package, dfs>>

\* Lines 186-205: the counts of the report, and the value returned.
ApplyUpdate(updated) ==
    /\ report' = updated
    /\ out' = IF args.return_tables THEN <<updated, dfs>> ELSE updated
UpdateReport ==
    /\ pc.phase = "update"
    /\ ApplyUpdate(UpdatedReport([i \in DOMAIN report.tables |-> UpdatedTable(report.tables[i])]))
    /\ pc' = [phase |-> "done", i |-> 0]
    /\ UNCHANGED <<df, references, op, args, package, dfs, calls>>

NextValidate == Normalise \/ ReadParseCheck \/ CheckForeignKeysOf \/ UpdateReport
SpecValidate == InitValidate /\ [][NextValidate]_vars


----------------------------------------------------------------------------
(* Claims about the key checks *)


\* The table a foreign key descriptor refers to, as the claims state it.
ClaimParent(fk) ==
    IF fk.reference.resource = "" THEN df ELSE references[fk.reference.resource]
ClaimResolved(fk) ==
    fk.reference.resource = "" \/ fk.reference.resource \in DOMAIN references

\* Child row i carries a key tuple without a null that no parent row equals.
ClaimUnmatched(fk, i) ==
    /\ \A c \in Range(fk.fields) : df.rows[i][c] # NA
    /\ ~\E j \in DOMAIN ClaimParent(fk).rows :
           \A k \in DOMAIN fk.fields :
               ClaimParent(fk).rows[j][fk.reference.fields[k]] = df.rows[i][fk.fields[k]]

\* C1: check_foreign_keys treats a child row without a null in its key
\* columns as valid iff some parent row has a component-wise equal reference
\* tuple, for every such row (also a repeated one), for single-column and for
\* multi-column keys; a row whose key tuple is all null is never invalid.
C1_RowValidIffParentHasTuple ==
    op = "check_foreign_keys" =>
        \A n \in DOMAIN out.checked :
            LET entry == out.checked[n]
                fk == args.foreignKeys[entry.fk]
            IN  ~entry.skipped =>
                    \A i \in DOMAIN df.rows :
                        /\ (\A c \in Range(fk.fields) : df.rows[i][c] # NA)
                               => (entry.invalid[i] <=> ClaimUnmatched(fk, i))
                        /\ (\A c \in Range(fk.fields) : df.rows[i][c] = NA)
                               => ~entry.invalid[i]

\* C2: row i is flagged under a key iff an earlier row has the same value in
\* every key column (null equal to null).
C2_Flagged(key, i) ==
    \E j \in 1..(i - 1) : \A c \in Range(key) : df.rows[j][c] = df.rows[i][c]
C2_HasFlagged(key) == \E i \in DOMAIN df.rows : C2_Flagged(key, i)
C2_FlaggedTuples(key) ==
    {[k \in DOMAIN key |-> df.rows[i][key[k]]] : i \in {r \in DOMAIN df.rows : C2_Flagged(key, r)}}

\* C2: check_unique_keys with skip_single off flags a row iff an earlier row
\* has identical values in all key columns, null equal to null; it emits one
\* unique-key error per key with a flagged row, in key order, whose values are
\* the distinct key tuples of the flagged rows.
C2_UniqueKeysFlagDuplicates ==
    (op = "check_unique_keys" /\ ~args.skip_single) =>
        LET failing == SelectSeq(args.uniqueKeys, C2_HasFlagged)
        IN  /\ out.raised = ""
            /\ \A n \in DOMAIN args.uniqueKeys : \A i \in DOMAIN df.rows :
                   DuplicateMask(df, args.uniqueKeys[n])[i] <=> C2_Flagged(args.uniqueKeys[n], i)
            /\ Len(out.errors) = Len(failing)
            /\ \A n \in DOMAIN failing :
                   /\ out.errors[n].code = "unique-key-error"
                   /\ out.errors[n].uniqueKey = failing[n]
                   /\ Range(out.errors[n].values) = C2_FlaggedTuples(failing[n])
                   /\ Cardinality(Range(out.errors[n].values)) = Len(out.errors[n].values)

\* C2 witness: the second of two all-null key tuples was flagged and reported.
C2_Witness ==
    /\ op = "check_unique_keys" /\ ~args.skip_single
    /\ Len(df.rows) = 3
    /\ \E n \in DOMAIN out.errors :
           /\ out.errors[n].uniqueKey = <<"a", "b">>
           /\ <<NA, NA>> \in Range(out.errors[n].values)
           /\ Len(out.errors[n].values) = 1
    /\ df.rows[2] = df.rows[3]

\* The key tuple of child row i under a foreign key.
ClaimChildTuple(fk, i) == [k \in DOMAIN fk.fields |-> df.rows[i][fk.fields[k]]]

\* Some error of the result is the subset error of descriptor fk.
ClaimHasSubsetError(fk) ==
    \E n \in DOMAIN out.errors :
        /\ out.errors[n].code = "foreign-key-error"
        /\ out.errors[n].foreignKey = fk

\* C9: check_foreign_keys takes the child itself as parent for the empty
\* reference name and references[name] otherwise; a descriptor whose name is
\* not in references adds no error and raises nothing, and the other
\* descriptors are checked as if it were not in the list.
C9_ParentResolvedOrSkipped ==
    op = "check_foreign_keys" =>
        LET fks == args.foreignKeys
        IN  /\ args.constraint = "None" => out.raised = ""
            /\ (\A n \in DOMAIN fks : ~ClaimResolved(fks[n]))
                   => (out.raised = "" /\ out.errors = <<>>)
            /\ \A n \in DOMAIN fks :
                   ~ClaimResolved(fks[n]) =>
                       LET rest == [i \in 1..(Len(fks) - 1) |->
                                        IF i < n THEN fks[i] ELSE fks[i + 1]]
                           r == check_foreign_keys(df, rest, references, args.constraint)
                       IN  r.raised = out.raised /\ r.errors = out.errors
            /\ out.raised = "" =>
                   \A n \in DOMAIN fks :
                       ClaimHasSubsetError(fks[n])
                           <=> (/\ ClaimResolved(fks[n])
                                /\ \E i \in DOMAIN df.rows : ClaimUnmatched(fks[n], i))

\* C9 witness: a descriptor naming the absent table "Z" was skipped and the
\* descriptor after it produced its error.
C9_Witness ==
    /\ op = "check_foreign_keys"
    /\ args.foreignKeys = <<FK(<<"a">>, "Z", <<"a">>), FK(<<"b">>, "B", <<"a">>)>>
    /\ out.raised = ""
    /\ Len(out.errors) = 1
    /\ out.errors[1].reference = "B"
    /\ out.checked[1].skipped /\ ~out.checked[2].skipped

\* The errors of the parent key check of descriptor fk, as the claim reads
\* them: the unique-key or primary-key check of the parent's reference columns.
C10_ParentSideErrors(fk) ==
    IF Lower(args.constraint) = "uniquekey"
    THEN check_unique_keys(ClaimParent(fk), <<fk.reference.fields>>, FALSE)
    ELSE check_primary_key(ClaimParent(fk), fk.reference.fields, FALSE, FALSE)

\* C10: with constraint 'primarykey' or 'uniquekey', check_foreign_keys
\* returns normally; for a parent other than the child, each parent-side error
\* is in the result, with its field name prefixed by "<parent>." when it has
\* one and as a foreign-key error with the same values when it has none; for
\* a parent that is the child no parent-side error is added.
C10_ParentErrorsReattributed ==
    (op = "check_foreign_keys" /\ args.constraint # "None") =>
        /\ out.raised = ""
        /\ \A n \in DOMAIN args.foreignKeys :
               LET fk == args.foreignKeys[n]
               IN  (ClaimResolved(fk) /\ ClaimParent(fk).id # df.id) =>
                       \A k \in DOMAIN C10_ParentSideErrors(fk) :
                           LET e == C10_ParentSideErrors(fk)[k]
                           IN  \E m \in DOMAIN out.errors :
                                   IF "fieldName" \in DOMAIN e
                                   THEN /\ "fieldName" \in DOMAIN out.errors[m]
                                        /\ out.errors[m].fieldName
                                               = <<fk.reference.resource, ".", e.fieldName>>
                                   ELSE /\ out.errors[m].code = "foreign-key-error"
                                        /\ out.errors[m].values = e.values
        /\ (\A n \in DOMAIN args.foreignKeys :
               ClaimResolved(args.foreignKeys[n])
                   => ClaimParent(args.foreignKeys[n]).id = df.id)
               => \A m \in DOMAIN out.errors :
                      /\ out.errors[m].code = "foreign-key-error"
                      /\ \A v \in Range(out.errors[m].values) :
                             \E i \in DOMAIN df.rows :
                                 /\ ClaimUnmatched(out.errors[m].foreignKey, i)
                                 /\ v = ClaimChildTuple(out.errors[m].foreignKey, i)

----------------------------------------------------------------------------
(* Claims about the field parsers *)

\* The column parse_field was called with, and whether the descriptor names
\* a supported type with a format the parser knows.
ClaimColumn == Column(df, "x")
ClaimParsed == op = "parse_field"
ClaimSupported ==
    LET type == Get(args.field, "type", "string")
        format == Get(args.field, "format", FormatDefault)
    IN  /\ type \in SupportedTypes
        /\ type = "string" => format \in StringPatterns \cup {FormatDefault, FormatBinary}
        /\ type = "geopoint" => format \in GeopointFormats
ClaimOptionsOff ==
    ~args.OPTIONS.raise_first_invalid_integer /\ ~args.OPTIONS.raise_first_invalid_number

\* A raw value is valid when the column holding it alone parses to a typed column.
ClaimValidAlone(c) ==
    parse_field(<<c>>, args.field, args.OPTIONS, args.guess).kind = "Series"
ClaimInvalidAt(i) == ~IsNa(ClaimColumn[i]) /\ ~ClaimValidAlone(ClaimColumn[i])

\* The invalid cells of the first n positions, each once, in order of first appearance.
RECURSIVE ClaimInvalidsUpTo(_)
ClaimInvalidsUpTo(n) ==
    IF n = 0 THEN <<>>
    ELSE LET before == ClaimInvalidsUpTo(n - 1)
         IN  IF ClaimInvalidAt(n) /\ ClaimColumn[n] \notin Range(before)
             THEN Append(before, ClaimColumn[n]) ELSE before

\* C4: with the fast options off, a parser applied to a column with an
\* invalid non-null value returns one type error whose values are the
\* distinct invalid raw values in order of first appearance, and applied to a
\* column without invalid value it returns a typed column.
C4_OneErrorListsInvalidValues ==
    (ClaimParsed /\ ClaimSupported /\ ClaimOptionsOff) =>
        IF \E i \in DOMAIN ClaimColumn : ClaimInvalidAt(i)
        THEN out.kind = "TypeError" /\ out.values = ClaimInvalidsUpTo(Len(ClaimColumn))
        ELSE out.kind = "Series"

\* C5: parse_field of a supported type and format keeps every null at its
\* position, lists no null in an error, and parses a column of nulls and
\* valid values to a typed column.
C5_NullsPassThrough ==
    (ClaimParsed /\ ClaimSupported) =>
        /\ out.kind = "Series" =>
               /\ Len(out.values) = Len(ClaimColumn)
               /\ \A i \in DOMAIN ClaimColumn : IsNa(ClaimColumn[i]) => IsNa(out.values[i])
        /\ out.kind = "TypeError" => \A i \in DOMAIN out.values : ~IsNa(out.values[i])
        /\ (\A i \in DOMAIN ClaimColumn : ~ClaimInvalidAt(i)) => out.kind = "Series"
C5_Witness ==
    /\ ClaimParsed /\ ClaimSupported /\ out.kind = "Series"
    /\ Get(args.field, "type", "string") = "integer"
    /\ \E i, j \in DOMAIN ClaimColumn :
           IsNa(ClaimColumn[i]) /\ ~IsNa(ClaimColumn[j]) /\ IsNa(out.values[i]) /\ ~IsNa(out.values[j])

\* C6: parse_field raises the unsupported-type error for every type other
\* than the eight supported names.
C6_OtherTypesRaiseNotImplemented ==
    (ClaimParsed /\ Get(args.field, "type", "string") \notin SupportedTypes) =>
        out = Raised("NotImplementedError")

----------------------------------------------------------------------------
(* Claims about validate *)

\* The errors of a list that carry the given code.
ErrorsWithCode(errors, code) ==
    SelectMask(errors, [i \in DOMAIN errors |-> Get(errors[i], "code", "") = code])

\* Resource j is the resource of the scenario: one field id of type integer,
\* primaryKey ["id"], a valid header and the rows "1", "2", "2".
ClaimScenario(j) ==
    /\ j \in DOMAIN args.source
    /\ args.source[j].schema = [fields |-> <<IdField>>, primaryKey |-> <<"id">>]
    /\ args.header[j]
    /\ args.files[j].kind = "table"
    /\ Column(args.files[j].table, "id") = <<Raw(<<"1">>), Raw(<<"2">>), Raw(<<"2">>)>>

\* C3 as the specification states it: validate reports, for the resource of
\* the scenario, exactly one primary-key error that lists the duplicate value
\* 2, and no required-constraint error.
C3_OnePrimaryKeyError ==
    \A j \in DOMAIN args.source :
        pc.phase = "done" /\ ClaimScenario(j) =>
            LET errors == report.tables[j].errors
                pk == ErrorsWithCode(errors, "primary-key-error")
            IN  /\ Len(pk) = 1
                /\ pk[1].values = <<<<<<2>>>>>>
                /\ \A i \in DOMAIN errors : Get(errors[i], "constraintName", "") # "required"

\* C3: for the resource of the scenario validate reports exactly one error,
\* the unique-constraint error of field id that lists the duplicate value 2;
\* it reports no primary-key error and no required-constraint error.
C3_OneUniqueConstraintError ==
    \A j \in DOMAIN args.source :
        pc.phase = "done" /\ ClaimScenario(j) =>
            /\ report.tables[j].errors = <<ConstraintError("id", "unique", TRUE, <<<<2>>>>)>>
            /\ ErrorsWithCode(report.tables[j].errors, "primary-key-error") = <<>>
            /\ \A i \in DOMAIN report.tables[j].errors :
                   report.tables[j].errors[i].constraintName # "required"
C3_Witness == \E j \in DOMAIN args.source : pc.phase = "done" /\ ClaimScenario(j)

\* Resource j has finished its pass of the first loop before call q: its
\* header is invalid (it is skipped), or it was read before q and none of
\* its reads, parses and table checks comes after q.
FinishedBefore(j, q) ==
    /\ args.header[j] =>
           \E p \in 1..(q - 1) : calls[p].op = "read_table" /\ calls[p].resource = j
    /\ \A p \in DOMAIN calls :
           calls[p].resource = j /\ calls[p].op # "check_foreign_keys" => p < q

\* C7: every call of check_foreign_keys comes after every resource of the
\* package has finished its read, parse and table checks or was skipped,
\* no read, parse or table check follows it, and the table map it is handed
\* holds the tables the map holds from then on.
C7_ForeignKeysAfterAllTables ==
    \A q \in DOMAIN calls :
        calls[q].op = "check_foreign_keys" =>
            /\ \A j \in DOMAIN args.source : FinishedBefore(j, q)
            /\ calls[q].tables = DOMAIN dfs
\* The resource declared first refers to the resource declared second, and
\* its foreign keys are checked against a map that holds both tables.
C7_Witness ==
    \E q \in DOMAIN calls :
        /\ calls[q].op = "check_foreign_keys"
        /\ calls[q].resource = 1
        /\ Len(args.source) = 2
        /\ \E k \in DOMAIN ForeignKeysOf(args.source[1]) :
               ForeignKeysOf(args.source[1])[k].reference.resource = args.source[2].name
        /\ calls[q].tables = {"A", "B"}

\* The operations validate called for resource j.
Called(j, ops) == \E p \in DOMAIN calls : calls[p].resource = j /\ calls[p].op \in ops
TableChecks == {"check_constraints", "check_primary_key", "check_unique_keys"}

\* Resource j fails: its header is invalid, its file cannot be read, or the
\* parsing of its table does not give a table.
ResourceFails(j) ==
    \/ ~args.header[j]
    \/ args.files[j].kind = "error"
    \/ parse_table(args.files[j].table, args.source[j].schema, OptionsOff, {}).kind # "table"

\* Resource k was read, parsed and checked.
ReadParsedChecked(k) ==
    \A o \in {"read_table", "parse_table"} \cup TableChecks : Called(k, {o})

\* The statement of C8 on the calls validate made.
ClaimFailedResourceSkipped ==
    /\ \A j \in DOMAIN args.source :
           ResourceFails(j) =>
               /\ ~Called(j, TableChecks \cup {"check_foreign_keys"})
               /\ args.source[j].name \notin DOMAIN dfs
               /\ \A k \in DOMAIN args.source \ {j} : ~ResourceFails(k) => ReadParsedChecked(k)
    /\ \A j \in DOMAIN args.source :
           Called(j, {"check_foreign_keys"}) <=> args.source[j].name \in DOMAIN dfs

\* C8: when validate ends, by returning or by raising, a resource whose
\* header check, read or type parsing failed got no constraint, primary-key,
\* unique-key or foreign-key check and is not in the table map, every
\* sibling that does not fail itself was read, parsed and checked, and the
\* foreign keys of a resource were checked exactly if its table is in the map.
C8_FailedResourceSkipsOnlyItself ==
    pc.phase \in {"done", "raised"} => ClaimFailedResourceSkipped

----------------------------------------------------------------------------
(* Claims on check_field_constraints and parse_field_constraint            *)
(* (specification SpecConstraints)                                         *)

\* The call of check_field_constraints returned its list.
Returned_check_field_constraints == op = "check_field_constraints" /\ out.raised = ""

\* The constraint kinds in the order of the statement, and the place of a
\* constraint name in it.
ConstraintOrder ==
    <<"required", "unique", "minLength", "maxLength", "minimum", "maximum", "pattern", "enum">>
ConstraintRank(name) == CHOOSE i \in DOMAIN ConstraintOrder : ConstraintOrder[i] = name

\* C11: the errors returned by check_field_constraints name their
\* constraints in the fixed order required, unique, minLength, maxLength,
\* minimum, maximum, pattern, enum, and no two errors of one call name the
\* same constraint (so there are at most eight).
C11_ErrorsInFixedOrderOnePerKind ==
    Returned_check_field_constraints =>
        \A i, j \in DOMAIN out.errors :
            i < j => ConstraintRank(out.errors[i].constraintName)
                         < ConstraintRank(out.errors[j].constraintName)

\* The errors of the call with a code that name a constraint.
ErrorsNamed(constraintName, code) ==
    SelectSeq(out.errors, LAMBDA e : e.code = code /\ e.constraintName = constraintName)

\* A text literal conforms to the type of the field when the parser of the
\* type accepts it; the typed value of a literal is then the parsed value.
\* A literal that is not text is a typed value as it stands.
TextParsed(literal) == parse_field(<<<<Val(literal)>>>>, args.field, OptionsOff, {})
Conforms(literal) == Py(literal) # "str" \/ TextParsed(literal).kind = "Series"
TypedLiteral(literal) ==
    IF Py(literal) = "str"
    THEN Literal(TextParsed(literal).dtype, TextParsed(literal).values[1][1])
    ELSE literal

\* The order of typed values as the statement means it: timestamps by day
\* and second, numbers by their value (in tenths: the numbers of the
\* descriptors have at most one decimal place).
Tenths(value) ==
    IF Py(value) \in {"float", "float64"}
    THEN (IF Val(value).neg THEN -1 ELSE 1) * Val(value).m * Pow10(Val(value).e + 1)
    ELSE IF Py(value) = "bool" THEN (IF Val(value) THEN 10 ELSE 0)
    ELSE 10 * Val(value)
StrictlyLess(a, b) ==
    IF Py(a) = "datetime64[ns]"
    THEN Val(a).days < Val(b).days \/ (Val(a).days = Val(b).days /\ Val(a).secs < Val(b).secs)
    ELSE Tenths(a) < Tenths(b)

\* The cells of the column that are not null and lie strictly beyond the
\* bound: below minimum, above maximum.
BeyondBound(constraintName, bound) ==
    {df.rows[i].x : i \in {j \in DOMAIN df.rows :
        /\ ~IsNa(df.rows[j].x)
        /\ LET value == Literal(DtypeOf(args.field.type), df.rows[j].x[1])
           IN  IF constraintName = "minimum" THEN StrictlyLess(value, bound)
               ELSE StrictlyLess(bound, value)}}

\* An error lists exactly the cells of a set, each once.
ListsOnce(error, cells) ==
    Range(error.values) = cells /\ Len(error.values) = Cardinality(cells)

\* The statement of C12 for minimum or maximum.
ClaimBound(constraintName) ==
    IF ~Conforms(args.constraints[constraintName])
    THEN /\ Len(ErrorsNamed(constraintName, "constraint-type-error")) = 1
         /\ ErrorsNamed(constraintName, "constraint-error") = <<>>
    ELSE /\ ErrorsNamed(constraintName, "constraint-type-error") = <<>>
         /\ LET beyond == BeyondBound(constraintName,
                                      TypedLiteral(args.constraints[constraintName]))
                errors == ErrorsNamed(constraintName, "constraint-error")
            IN  /\ Len(errors) = IF beyond = {} THEN 0 ELSE 1
                /\ errors # <<>> => ListsOnce(errors[1], beyond)

FullMatch(s, pattern) == \E k \in DOMAIN Split(pattern, "|") : s = Split(pattern, "|")[k]

\* The cells of the column that are not null and that the pattern does not
\* match entirely.
NotFullyMatched(pattern) ==
    {df.rows[i].x : i \in {j \in DOMAIN df.rows :
        ~IsNa(df.rows[j].x) /\ ~FullMatch(df.rows[j].x[1], pattern)}}

\* C13: on a string field with a pattern, a value that is not null is
\* reported exactly if the pattern does not match the entire value, for
\* every pattern (a top-level alternation included); nulls are not reported.
C13_PatternMatchesEntireValue ==
    /\ Returned_check_field_constraints
    /\ args.field.type = "string"
    /\ "pattern" \in DOMAIN args.constraints
    => LET errors == ErrorsNamed("pattern", "constraint-error")
           unmatched == NotFullyMatched(args.constraints["pattern"])
       IN  /\ Len(errors) = IF unmatched = {} THEN 0 ELSE 1
           /\ errors # <<>> => ListsOnce(errors[1], unmatched)

----------------------------------------------------------------------------
(* Claims on the checks validate makes before parsing (SpecValidate)       *)

\* The raw values of field f of resource j that are not null.
RawValues(j, f) ==
    {c[1] : c \in {args.files[j].table.rows[i][f.name] :
                      i \in DOMAIN args.files[j].table.rows} \ {NA}}

\* The report of resource j holds an error of the field that names the
\* constraint.
Reports(j, f, constraintName) ==
    \E i \in DOMAIN report.tables[j].errors :
        /\ Get(report.tables[j].errors[i], "code", "") = "constraint-error"
        /\ report.tables[j].errors[i].fieldName = f.name
        /\ report.tables[j].errors[i].constraintName = constraintName

\* Field k of resource j is not of type string and declares a pattern that
\* some raw value does not match; it is not of a length type and declares a
\* minLength that some raw string is shorter than.
RawPatternViolated(j, f) ==
    /\ Get(f, "type", "string") # "string"
    /\ "pattern" \in DOMAIN Get(f, "constraints", <<>>)
    /\ \E s \in RawValues(j, f) : ~FullMatch(s, f.constraints["pattern"])
RawMinLengthViolated(j, f) ==
    /\ Get(f, "type", "string") \notin LengthTypes
    /\ "minLength" \in DOMAIN Get(f, "constraints", <<>>)
    /\ \E s \in RawValues(j, f) : Len(s) < f.constraints["minLength"]

\* C14: pattern and minLength apply to fields of any type.  When validate
\* returns, a resource that was read and has a field that is not a string
\* with a pattern that a raw value does not match has a pattern constraint
\* error of the field in its report, and a field of a type without length
\* with a minLength that a raw string is shorter than has a minLength error.
C14_RawValuesCheckedBeforeParsing ==
    pc.phase = "done" =>
        \A j \in DOMAIN args.source :
            args.header[j] /\ args.files[j].kind = "table" =>
                \A k \in DOMAIN args.source[j].schema.fields :
                    LET f == args.source[j].schema.fields[k]
                    IN  /\ RawPatternViolated(j, f) => Reports(j, f, "pattern")
                        /\ RawMinLengthViolated(j, f) => Reports(j, f, "minLength")

----------------------------------------------------------------------------
(* Further claims on check_field_constraints (SpecConstraints)             *)

\* The constraints without the keys of a set.
Without(constraints, keys) == [k \in DOMAIN constraints \ keys |-> constraints[k]]

\* The constraints that the type of the field makes check_field_constraints
\* skip: the lengths on a type without length, the bounds on a type without
\* order.
Skipped(constraints, type) ==
    (IF type \in {"string", "array", "object"} THEN {} ELSE {"minLength", "maxLength"})
    \cup (IF type \in {"integer", "number", "date", "time", "datetime", "year", "yearmonth"}
          THEN {} ELSE {"minimum", "maximum"})

\* C15: minLength and maxLength on a field that is not a string, array or
\* object, and minimum and maximum on a field that is not an integer,
\* number, date, time, datetime, year or yearmonth, are skipped silently:
\* the call gives no error of any kind that names them, and its outcome is
\* that of the call without them (the bound is not evaluated).
C15_ConstraintsOfOtherTypesSkipped ==
    op = "check_field_constraints" =>
        LET skipped == Skipped(args.constraints, args.field.type)
        IN  /\ \A i \in DOMAIN out.errors : out.errors[i].constraintName \notin skipped
            /\ args.field.type \notin {"string", "array", "object"} =>
                   \A i \in DOMAIN out.errors :
                       ~(out.errors[i].constraintName = "minLength"
                         /\ out.errors[i].constraintValue = Get(args.constraints, "maxLength", -1))
            /\ out = FieldConstraints(Column(df, "x"), Without(args.constraints, skipped),
                                      args.field, OptionsOff, {})

\* A boolean column with the value 0 and a minimum of "1", a minLength of 2
\* and nothing else declared: the call returns no error.
C15_Witness ==
    /\ Returned_check_field_constraints
    /\ args.field.type = "boolean"
    /\ args.constraints = [minimum |-> Str(<<"1">>), minLength |-> 2]
    /\ \E i \in DOMAIN df.rows : df.rows[i].x = <<0>>
    /\ out.errors = <<>>

\* The rows whose cell equals the cell of an earlier row; two nulls are equal.
Repeated == {i \in DOMAIN df.rows : \E j \in 1..(i - 1) : df.rows[j].x = df.rows[i].x}

\* C16: with unique set, check_field_constraints gives exactly one unique
\* constraint error if some value equals an earlier value of the column,
\* nulls being equal to each other, and none if every value, null included,
\* occurs once; the error lists the distinct values of the occurrences that
\* are not the first.
C16_UniqueReportsRepeatedValues ==
    Returned_check_field_constraints /\ Get(args.constraints, "unique", FALSE) =>
        LET errors == ErrorsNamed("unique", "constraint-error")
        IN  /\ Len(errors) = IF Repeated = {} THEN 0 ELSE 1
            /\ errors # <<>> => ListsOnce(errors[1], {df.rows[i].x : i \in Repeated})

\* A column of two nulls with unique set: the unique error lists the null.
C16_Witness ==
    /\ Returned_check_field_constraints
    /\ Get(args.constraints, "unique", FALSE)
    /\ Column(df, "x") = <<NA, NA>>
    /\ ErrorsNamed("unique", "constraint-error") # <<>>
    /\ ErrorsNamed("unique", "constraint-error")[1].values = <<NA>>

\* Equality of typed values as the statement means it.
SameValue(a, b) ==
    IF Py(a) \in {"datetime64[ns]", "object", "str"} \/ Py(b) \in {"datetime64[ns]", "object", "str"}
    THEN /\ (Py(a) = "datetime64[ns]") = (Py(b) = "datetime64[ns]")
         /\ Val(a) = Val(b)
    ELSE Tenths(a) = Tenths(b)

\* The cells of the column that are not null and are not a member of the
\* typed enum list.
NonMembers(enum) ==
    {df.rows[i].x : i \in {j \in DOMAIN df.rows :
        /\ ~IsNa(df.rows[j].x)
        /\ \A k \in DOMAIN enum :
               ~SameValue(Literal(DtypeOf(args.field.type), df.rows[j].x[1]),
                          TypedLiteral(enum[k]))}}

----------------------------------------------------------------------------
(* Claims on parse_field_constraint (SpecConstraints)                      *)

\* A literal conforms to the declared type of the field: a text when the
\* parser of the type accepts it, an int for the types of whole and real
\* numbers, a float for the type number, a bool for the type boolean.
ConformsToType(literal, type) ==
    IF Py(literal) = "str" THEN TextParsed(literal).kind = "Series"
    ELSE IF Py(literal) = "int" THEN type \in {"integer", "year", "number"}
    ELSE IF Py(literal) = "float" THEN type = "number"
    ELSE Py(literal) = "bool" /\ type = "boolean"

\* The literals handed to parse_field_constraint: the elements of an enum,
\* the one literal of minimum or maximum.
LiteralsOf(constraint) ==
    IF constraint = "enum" THEN args.constraints["enum"] ELSE <<args.constraints[constraint]>>

\* C18: parse_field_constraint returns a constraint-type error whenever the
\* literal, or an element of the list, does not conform to the declared type
\* of the field, be it text or not; otherwise it returns the literals as
\* typed values; it never returns a data type error.
C18_NonConformingLiteralGivesTypeError ==
    op = "parse_field_constraint" =>
        LET literals == LiteralsOf(out.constraint)
            typed == [k \in DOMAIN literals |-> TypedLiteral(literals[k])]
        IN  /\ out.result.kind # "TypeError"
            /\ IF \E k \in DOMAIN literals : ~ConformsToType(literals[k], args.field.type)
               THEN /\ out.result.kind = "error"
                    /\ out.result.value.code = "constraint-type-error"
               ELSE /\ out.result.kind = "value"
                    /\ out.result.value = IF out.constraint = "enum" THEN typed ELSE typed[1]

----------------------------------------------------------------------------
(* Further claims on check_foreign_keys (SpecFK)                           *)

\* The foreign-key errors of the result that carry descriptor fk.
SubsetErrors(fk) ==
    SelectSeq(out.errors, LAMBDA e : e.code = "foreign-key-error" /\ e.foreignKey = fk)

\* The key tuples of the child rows without a null key column that no
\* parent row equals.
UnmatchedTuples(fk) ==
    {ClaimChildTuple(fk, i) : i \in {j \in DOMAIN df.rows : ClaimUnmatched(fk, j)}}

\* C19: for each foreign key descriptor check_foreign_keys gives at most one
\* foreign-key error for subset violations; it gives one exactly if a child
\* row without a null key column has no equal parent reference tuple; the
\* values of the error are the distinct key tuples of those rows, each once,
\* and its reference is the parent resource name of the descriptor.
C19_OneSubsetErrorPerForeignKey ==
    op = "check_foreign_keys" /\ out.raised = "" =>
        \A n \in DOMAIN args.foreignKeys :
            LET fk == args.foreignKeys[n]
                errors == SubsetErrors(fk)
                unmatched == IF ClaimResolved(fk) THEN UnmatchedTuples(fk) ELSE {}
            IN  /\ Len(errors) = IF unmatched = {} THEN 0 ELSE 1
                /\ errors # <<>> =>
                       /\ Range(errors[1].values) = unmatched
                       /\ Len(errors[1].values) = Cardinality(unmatched)
                       /\ errors[1].reference = fk.reference.resource

\* Two equal child rows (1, 1) under a two-column key into a parent B that
\* has no row (1, 1): one error that lists the tuple once.
C19_Witness ==
    /\ op = "check_foreign_keys"
    /\ out.raised = ""
    /\ args.foreignKeys = <<FK(<<"a", "b">>, "B", <<"a", "b">>)>>
    /\ Len(df.rows) = 2
    /\ \A i \in DOMAIN df.rows : df.rows[i] = [a |-> <<1>>, b |-> <<1>>]
    /\ Len(out.errors) = 1
    /\ out.errors[1].values = <<<<<<1>>, <<1>>>>>>
    /\ out.errors[1].reference = "B"

----------------------------------------------------------------------------
(* Specification SpecRerun: one of check_constraints, check_primary_key,   *)
(* check_unique_keys and check_foreign_keys called again and again with    *)
(* the same objects.  Here package holds the objects of the module         *)
(* check.py that outlive a call (the default value of the argument         *)
(* references, created once when the def statement runs), calls lists what *)
(* each call returned, and args holds the objects handed to every call.    *)

MaxRuns == 2

CheckNames ==
    {"check_constraints", "check_primary_key", "check_unique_keys", "check_foreign_keys"}

\* Integer fields with constraints, as check_constraints reads them.
IntegerField(name, constraints) ==
    [name |-> name, type |-> "integer", constraints |-> constraints]
RerunSchemas ==
    {[fields |-> <<IntegerField("a", Constraints(TRUE, TRUE, Absent, Absent, Absent,
                                                 Absent, Absent, Absent)),
                   IntegerField("b", Constraints(FALSE, FALSE, Absent, Absent,
                                                 <<Str(<<"1">>)>>, Absent, Absent, Absent))>>],
     [fields |-> <<IntegerField("b", Constraints(TRUE, FALSE, Absent, Absent, Absent,
                                                 <<Literal("int", 1)>>, Absent,
                                                 <<<<Str(<<"2">>), Str(<<"1">>)>>>>)),
                   IntegerField("a", Constraints(FALSE, TRUE, Absent, Absent, Absent,
                                                 Absent, Absent,
                                                 <<<<Str(<<"2">>)>>>>))>>]}

\* The objects handed to the calls of one behaviour; `given` tells whether
\* the caller passes references or leaves the argument to its default.
RerunCases ==
    {[check |-> "check_constraints", schema |-> schema] : schema \in RerunSchemas}
    \cup {[check |-> "check_primary_key", primaryKey |-> primaryKey,
           skip_required |-> skip_required, skip_single |-> skip_single] :
              primaryKey \in Keys \cup {<<>>}, skip_required \in BOOLEAN,
              skip_single \in BOOLEAN}
    \cup {[check |-> "check_unique_keys", uniqueKeys |-> uniqueKeys,
           skip_single |-> skip_single] :
              uniqueKeys \in UniqueKeyLists, skip_single \in BOOLEAN}
    \cup {[check |-> "check_foreign_keys", foreignKeys |-> fks, given |-> given,
           constraint |-> constraint] :
              fks \in ForeignKeyLists, given \in BOOLEAN, constraint \in ParentConstraints}

\* check.py line 288, `references: Dict[str, pd.DataFrame] = {}`: a call
\* that passes no references works on the default object of the function.
ReferencesArgument(given, passed, defaults) ==
    IF given THEN passed ELSE defaults.references

\* The default object after a call of check_foreign_keys.  DefaultsFilled
\* is a function that would keep the child table in it; the code is
\* DefaultsLeft: lines 310-311 read the object (`if key in references`,
\* `references[key]`) and no line writes to it.
DefaultsFilled(defaults, child) ==
    [defaults EXCEPT !.references = Put(@, child.id, child)]
DefaultsLeft(defaults, child) == defaults

\* What a call returns, as [raised, errors].
Outcome(r) == [raised |-> r.raised, errors |-> r.errors]
RerunResult(table, call, refs) ==
    CASE call.check = "check_constraints" ->
             [raised |-> "", errors |-> check_constraints(table, call.schema)]
      [] call.check = "check_primary_key" ->
             [raised |-> "",
              errors |-> check_primary_key(table, call.primaryKey, call.skip_required,
                                           call.skip_single)]
      [] call.check = "check_unique_keys" ->
             [raised |-> "",
              errors |-> check_unique_keys(table, call.uniqueKeys, call.skip_single)]
      [] call.check = "check_foreign_keys" ->
             Outcome(check_foreign_keys(table, call.foreignKeys, refs, call.constraint))

InitRerun ==
    /\ df \in {[id |-> "A", rows |-> rs] : rs \in SeqsUpTo(ChildRows, MaxChildRows)}
    /\ \E rs \in SeqsUpTo(ParentRows, 1) :
           references = [n \in {"A", "B"} |->
                            IF n = "A" THEN df ELSE [id |-> "B", rows |-> rs]]
    /\ op = ""
    /\ args \in RerunCases
    /\ out = NoCall
    /\ package = [references |-> <<>>]
    /\ report = <<>>
    /\ dfs = <<>>
    /\ pc = Idle
    /\ calls = <<>>

\* One call of the check named by args.check, the first or a later one.
Run(name) ==
    /\ args.check = name
    /\ Len(calls) < MaxRuns
    /\ op' = name
    /\ out' = RerunResult(df, args,
                          IF name = "check_foreign_keys"
                          THEN ReferencesArgument(args.given, references, package)
                          ELSE references)
    /\ calls' = Append(calls, out')
    /\ package' = IF name = "check_foreign_keys" THEN DefaultsLeft(package, df) ELSE package
    /\ UNCHANGED <<df, references, args, report, dfs, pc>>

RunCheckConstraints == Run("check_constraints")
RunCheckPrimaryKey == Run("check_primary_key")
RunCheckUniqueKeys == Run("check_unique_keys")
RunCheckForeignKeys == Run("check_foreign_keys")

NextRerun ==
    RunCheckConstraints \/ RunCheckPrimaryKey \/ RunCheckUniqueKeys \/ RunCheckForeignKeys

SpecRerun == InitRerun /\ [][NextRerun]_vars

RerunReported(name) ==
    /\ op = name
    /\ Len(calls) = MaxRuns
    /\ calls[MaxRuns].errors # <<>>
----------------------------------------------------------------------------
(* Specification SpecParseTable: parse_table on a raw table of two columns *)

MaxTableRows == 2

\* 2^63, the smallest integer that does not fit the dtype Int64.
TwoTo63 == <<"9", "2", "2", "3", "3", "7", "2", "0", "3", "6", "8", "5", "4", "7", "7",
             "5", "8", "0", "8">>
RawPool == {NA, <<<<"1">>>>, <<<<"x">>>>, <<TwoTo63>>}
RawRows == [{"a", "b"} -> RawPool]

\* Schemas of one or two fields over the columns a and b; "array" is a type
\* of the Table Schema standard that parse.py has no parser for.
TableFieldTypes == {"integer", "boolean", "string", "array"}
TableSchemas ==
    {[fields |-> <<[name |-> n, type |-> t]>>] : n \in {"a", "b"}, t \in TableFieldTypes}
    \cup {[fields |-> <<[name |-> n[1], type |-> t1], [name |-> n[2], type |-> t2]>>] :
              n \in {<<"a", "b">>, <<"b", "a">>}, t1 \in TableFieldTypes,
              t2 \in TableFieldTypes}
    \cup {<<>>}

InitParseTable ==
    /\ df \in {[id |-> "A", rows |-> rs] : rs \in SeqsUpTo(RawRows, MaxTableRows)}
    /\ references = <<>>
    /\ op = ""
    /\ args \in {[schema |-> schema] : schema \in TableSchemas}
    /\ out = NoCall
    /\ ValidateIdle

\* parse_table(df, schema) under the default options: df[name] = result
\* assigns into the table that was passed, whatever the call returns.
ParseTableOf(table, schema, result) ==
    /\ op' = "parse_table"
    /\ args' = [schema |-> schema, df |-> table]
    /\ out' = result
    /\ df' = result.df
    /\ UNCHANGED references
    /\ UNCHANGED validateVars
ParseTable ==
    /\ op = ""
    /\ ParseTableOf(df, args.schema, parse_table(df, args.schema, OptionsOff, {}))

NextParseTable == ParseTable
SpecParseTable == InitParseTable /\ [][NextParseTable]_vars

\* The result of parse_field on the column of field n of the table that was
\* passed, and the fields whose column does not parse to a typed column.
FieldResult(table, fields, n) ==
    parse_field(Column(table, fields[n].name), fields[n], OptionsOff, {})
FailingFields(table, fields) ==
    SelectSeq([n \in DOMAIN fields |-> n],
              LAMBDA n : FieldResult(table, fields, n).kind # "Series")

\* The claim for one call, given the list of failing fields.
OneErrorPerFailingField(fields, failing, result) ==
    /\ result.kind \in {"table", "errors"}
    /\ result.kind = "table" <=> failing = <<>>
    /\ result.kind = "errors" =>
           /\ Len(result.errors) = Len(failing)
           /\ \A k \in DOMAIN failing :
                  /\ result.errors[k].kind = "TypeError"
                  /\ result.errors[k].fieldName = fields[failing[k]].name

\* Every field of the schema has a type parse.py has a parser for (any other
\* type ends parse_field with the NotImplementedError of its docstring).
TypesSupported(schema) ==
    \A n \in DOMAIN Get(schema, "fields", <<>>) :
        Get(Get(schema, "fields", <<>>)[n], "type", "string") \in SupportedTypes

\* C21: for a schema of supported field types, parse_table attempts every
\* field and returns the typed table exactly if every column parses;
\* otherwise it returns one type error per failing field, in field order,
\* each carrying the field's name.
C21_OneTypeErrorPerFailingField ==
    (op = "parse_table" /\ TypesSupported(args.schema)) =>
        OneErrorPerFailingField(Get(args.schema, "fields", <<>>),
                                FailingFields(args.df, Get(args.schema, "fields", <<>>)), out)

\* The same on the calls of parse_table that return.
ParseTableReturns == op = "parse_table" /\ out.kind # "raised"
ReturnedOneErrorPerFailingField == ParseTableReturns => C21_OneTypeErrorPerFailingField

\* The errors a table of the report holds are only ever added to.
IsPrefix(s, t) == Len(s) <= Len(t) /\ \A k \in DOMAIN s : s[k] = t[k]
ErrorsOnlyAdded ==
    (pc.phase \notin {"idle", "done"} /\ pc'.phase # "raised") =>
        \A i \in DOMAIN report.tables :
            IsPrefix(report.tables[i].errors, report'.tables[i].errors)

\* The counts and flags of a returned report agree with its lists of errors.
CountsAgree(r) ==
    /\ \A i \in DOMAIN r.tables :
           /\ r.tables[i].errorCount = Len(r.tables[i].errors)
           /\ r.tables[i].valid <=> r.tables[i].errorCount = 0
    /\ r.errorCount = Sum([i \in DOMAIN r.tables |-> r.tables[i].errorCount])
    /\ r.valid <=> \A i \in DOMAIN r.tables : r.tables[i].valid

\* C22: the errors of every phase are added to the table's list, none is
\* dropped; at the end of validate every table's error-count is the length
\* of that list and its valid flag is true iff the count is 0, the report's
\* error-count is the sum of the table counts and its valid flag is true iff
\* every table is valid; the report returned is that report.
C22_CountsAndFlagsAgreeWithErrors ==
    /\ [][ErrorsOnlyAdded]_vars
    /\ [](pc.phase = "done" =>
              /\ CountsAgree(report)
              /\ out = IF args.return_tables THEN <<report, dfs>> ELSE report)

\* A returned report of two tables, one with errors of the table checks and
\* of the foreign-key check, the other valid.
C22_Witness ==
    /\ pc.phase = "done"
    /\ Len(report.tables) = 2
    /\ \E i, j \in DOMAIN report.tables :
           /\ report.tables[i].errorCount >= 2
           /\ \E k \in DOMAIN report.tables[i].errors :
                  Get(report.tables[i].errors[k], "code", "") = "foreign-key-error"
           /\ report.tables[j].valid
    /\ ~report.valid

\* The result of parse_number or parse_integer on the column and the field
\* descriptor of the call, under the options given.
ParsedUnder(x, field, OPTIONS) ==
    IF field.type = "number"
    THEN parse_number(x, Get(field, "decimalChar", <<".">>), Get(field, "groupChar", <<>>),
                      Get(field, "bareNumber", TRUE), OPTIONS)
    ELSE parse_integer(x, Get(field, "bareNumber", TRUE), OPTIONS)

\* A call on a number or integer field with bareNumber false.
PaddedNumberCall ==
    /\ op = "parse_field"
    /\ Get(args.field, "type", "string") \in {"number", "integer"}
    /\ ~Get(args.field, "bareNumber", TRUE)

\* C23: with bareNumber false, parse_number and parse_integer return the
\* same result (the same typed column, or the same error with the same
\* values) whether raise_first_invalid_number and
\* raise_first_invalid_integer are on or off.
C23_FastOptionsOnlyWithBareNumber ==
    PaddedNumberCall =>
        /\ out = ParsedUnder(Column(df, "x"), args.field, args.OPTIONS)
        /\ out = ParsedUnder(Column(df, "x"), args.field, OptionsOff)

\* An optional sign followed by one or more decimal digits, and nothing else.
Unsigned(s) == IF s # <<>> /\ s[1] \in {"+", "-"} THEN Tail(s) ELSE s
IsSignedDigits(s) ==
    /\ Unsigned(s) # <<>>
    /\ \A i \in DOMAIN Unsigned(s) : Unsigned(s)[i] \in Digits
SignedDigitsValue(s) == PyIntValue(s[1] = "-", Unsigned(s))

\* A call of parse_integer with bareNumber true and the fast option off
\* that returns.
BareIntegerCall ==
    /\ op = "parse_field"
    /\ Get(args.field, "type", "string") = "integer"
    /\ Get(args.field, "bareNumber", TRUE)
    /\ ~args.OPTIONS.raise_first_invalid_integer
    /\ out.kind # "raised"

\* C24: parse_integer with bareNumber true and the fast option off parses a
\* column exactly if every non-null value is an optional sign followed by
\* decimal digits, each to the integer written; a value with any other
\* character (whitespace and underscore included) is invalid.
C24_BareIntegerIsSignAndDigits ==
    BareIntegerCall =>
        LET x == Column(df, "x")
        IN  /\ out.kind = "Series" <=> \A i \in DOMAIN x : IsNa(x[i]) \/ IsSignedDigits(x[i][1])
            /\ out.kind = "Series" =>
                   \A i \in DOMAIN x :
                       out.values[i] = IF IsNa(x[i]) THEN NA ELSE <<SignedDigitsValue(x[i][1])>>
            /\ out.kind = "TypeError" =>
                   \A i \in DOMAIN x :
                       (~IsNa(x[i]) /\ ~IsSignedDigits(x[i][1])) <=>
                           \E k \in DOMAIN out.values : out.values[k] = x[i]

\* The text in which the number of a cell is looked for: groupChar removed,
\* then decimalChar turned into a point (integers have neither).
SearchedText(s, field) ==
    IF field.type = "integer" THEN s
    ELSE LET ungrouped == IF Get(field, "groupChar", <<>>) # <<>>
                          THEN Replace(s, field.groupChar, <<>>) ELSE s
         IN  IF Get(field, "decimalChar", <<".">>) # <<".">>
             THEN Replace(ungrouped, field.decimalChar, <<".">>) ELSE ungrouped

\* The non-overlapping matches of the pattern of the field's type, and the
\* cell a single match stands for.
MatchesIn(text, field) ==
    IF field.type = "integer" THEN FindAllIntegers(text, 1) ELSE FindAllNumbers(text, 1)
MatchCell(match, field) ==
    IF field.type = "integer" THEN <<PyInt(match).v>> ELSE FloatCell(PyFloat(match).v)

\* The claim for a column x, given the matches of each non-null cell.
OneMatchIsValid(x, field, matches, result) ==
    /\ result.kind \in {"Series", "TypeError"}
    /\ result.kind = "Series" <=> \A i \in DOMAIN x : IsNa(x[i]) \/ Len(matches[i]) = 1
    /\ result.kind = "Series" =>
           \A i \in DOMAIN x :
               result.values[i] = IF IsNa(x[i]) THEN NA ELSE MatchCell(matches[i][1], field)
    /\ result.kind = "TypeError" =>
           /\ \A i \in DOMAIN x :
                  (~IsNa(x[i]) /\ Len(matches[i]) # 1) <=>
                      \E k \in DOMAIN result.values : result.values[k] = x[i]
           /\ \A k, l \in DOMAIN result.values : k # l => result.values[k] # result.values[l]

\* A call of parse_number or parse_integer with bareNumber false and the
\* fast options off that returns.
ExtractingCall ==
    /\ PaddedNumberCall
    /\ args.OPTIONS = OptionsOff
    /\ out.kind # "raised"
MatchesOfColumn(x, field) ==
    [i \in DOMAIN x |-> IF IsNa(x[i]) THEN <<>> ELSE MatchesIn(SearchedText(x[i][1], field), field)]

\* C25: with bareNumber false a non-null value is valid exactly if its text,
\* after the removal of groupChar and the translation of decimalChar, holds
\* one match of the number pattern (of [+-]?digits for an integer), and it
\* parses to the value of that match; a value with no match or with several
\* is listed, once, in the single error of the column.
C25_ExactlyOneMatchIsValid ==
    ExtractingCall =>
        OneMatchIsValid(Column(df, "x"), args.field, MatchesOfColumn(Column(df, "x"), args.field),
                        out)

\* A column of a number field with groupChar and decimalChar in which one
\* value holds two matches and is listed, and another holds one match.
C25_Witness ==
    /\ ExtractingCall
    /\ "groupChar" \in DOMAIN args.field
    /\ out.kind = "TypeError"
    /\ \E i, j \in DOMAIN df.rows :
           /\ ~IsNa(df.rows[i].x) /\ ~IsNa(df.rows[j].x)
           /\ Len(MatchesIn(SearchedText(df.rows[i].x[1], args.field), args.field)) >= 2
           /\ Len(MatchesIn(SearchedText(df.rows[j].x[1], args.field), args.field)) = 1
           /\ out.values = <<df.rows[i].x>>

\* The key fields with a null in their column, in key order, and the key
\* tuples of the rows that repeat the tuple of an earlier row.
FieldsWithNull(table, key) ==
    SelectSeq(key, LAMBDA name : \E i \in DOMAIN table.rows : table.rows[i][name] = NA)
KeyTuple(table, key, i) == [j \in DOMAIN key |-> table.rows[i][key[j]]]
RepeatedTuples(table, key) ==
    {KeyTuple(table, key, i) :
        i \in {k \in DOMAIN table.rows :
                  \E j \in 1..(k - 1) : KeyTuple(table, key, j) = KeyTuple(table, key, k)}}

\* The claim for one call: nulls are the required errors expected, and
\* keyChecked tells whether the duplicate test is due.
PrimaryKeyErrorsAre(errors, key, nulls, keyChecked, repeated) ==
    /\ Len(errors) = Len(nulls) + (IF keyChecked /\ repeated # {} THEN 1 ELSE 0)
    /\ \A k \in DOMAIN nulls :
           /\ errors[k].code = "constraint-error"
           /\ errors[k].constraintName = "required"
           /\ errors[k].fieldName = nulls[k]
    /\ (keyChecked /\ repeated # {}) =>
           LET e == errors[Len(errors)]
           IN  /\ e.code = "primary-key-error"
               /\ e.primaryKey = key
               /\ Range(e.values) = repeated
               /\ Len(e.values) = Cardinality(repeated)

\* C26: check_primary_key returns no error for an empty key; with
\* skip_required off one required error per key field that holds a null,
\* before any primary-key error, and none with skip_required on; no
\* primary-key error for a one-field key with skip_single on; otherwise one
\* primary-key error iff a row repeats the key tuple of an earlier row,
\* listing the distinct repeated tuples.
C26_PrimaryKeyErrors ==
    op = "check_primary_key" =>
        /\ out.raised = ""
        /\ PrimaryKeyErrorsAre(
               out.errors, args.primaryKey,
               IF args.skip_required THEN <<>> ELSE FieldsWithNull(df, args.primaryKey),
               args.primaryKey # <<>> /\ ~(args.skip_single /\ Len(args.primaryKey) = 1),
               RepeatedTuples(df, args.primaryKey))

\* A two-field key with a null in both fields and a repeated tuple: two
\* required errors, then the primary-key error.
C26_Witness ==
    /\ op = "check_primary_key"
    /\ Len(args.primaryKey) = 2
    /\ ~args.skip_required
    /\ Len(out.errors) = 3
    /\ out.errors[3].code = "primary-key-error"

\* The table parse_table makes of the file of resource i when every field
\* parses: each column of the schema replaced by its typed values.
FileOf(i) == args.files[i]
FieldsOf(i) == Get(Get(package.resources[i], "schema", <<>>), "fields", <<>>)
TypedColumn(i, f) ==
    parse_field(Column(FileOf(i).table, FieldsOf(i)[f].name), FieldsOf(i)[f], OptionsOff, {})
AllFieldsTyped(i, table) ==
    /\ args.header[i]
    /\ FileOf(i).kind = "table"
    /\ \A f \in DOMAIN FieldsOf(i) :
           /\ TypedColumn(i, f).kind = "Series"
           /\ Column(table, FieldsOf(i)[f].name) = TypedColumn(i, f).values

\* A step that changes the table map adds one table under a name that was
\* not in it and leaves the other tables as they are.
AddsOneTable(i) ==
    LET name == package.resources[i].name
    IN  /\ name \notin DOMAIN dfs
        /\ DOMAIN dfs' = DOMAIN dfs \cup {name}
        /\ \A n \in DOMAIN dfs : dfs'[n] = dfs[n]
        /\ AllFieldsTyped(i, dfs'[name])

\* C27: the map from resource name to typed table is written once per name,
\* in the loop over the tables and only after the read and the parse of the
\* resource succeeded, so that every table of the map has all fields of its
\* schema typed; the loop over the foreign keys, and every step after it,
\* leaves the map and its tables unchanged.
C27_TableMapWriteOnce ==
    [][/\ dfs' # dfs => pc.phase = "tables" /\ AddsOneTable(pc.i)
       /\ pc.phase \in {"foreign keys", "update", "done", "raised"} => dfs' = dfs]_vars

\* The foreign keys of the second resource have been checked against a map
\* of two typed tables.
C27_Witness ==
    /\ pc.phase \in {"update", "done"}
    /\ DOMAIN dfs = {"A", "B"}
    /\ \E k \in DOMAIN calls :
           /\ calls[k].op = "check_foreign_keys"
           /\ calls[k].resource = 2
           /\ calls[k].tables = {"A", "B"}
    /\ \E i \in DOMAIN report.tables : ~report.tables[i].valid

\* validate as a process that keeps running: a pass of the loop over the
\* foreign keys and the update of the report are taken when they are due
\* (both move pc).
SpecValidateLive ==
    InitValidate /\ [][NextValidate]_vars /\ WF_pc(CheckForeignKeysOf) /\ WF_pc(UpdateReport)

\* The calls of check_foreign_keys made for the resource at position i.
ForeignKeyCalls(i) ==
    {k \in DOMAIN calls : calls[k].op = "check_foreign_keys" /\ calls[k].resource = i}
EachTableCheckedOnce ==
    \A i \in DOMAIN package.resources :
        Cardinality(ForeignKeyCalls(i)) =
            IF package.resources[i].name \in DOMAIN dfs THEN 1 ELSE 0

\* C28: once validate has entered the loop over the foreign keys it leaves
\* it and returns, and by then the foreign keys of every resource of the
\* table map have been checked exactly once (those of no other resource),
\* whatever the references between the resources: to the resource itself,
\* or from A to B and from B to A.
C28_ForeignKeyPhaseTerminates ==
    /\ (pc.phase = "foreign keys") ~> (pc.phase = "done")
    /\ [](pc.phase = "done" => EachTableCheckedOnce)

\* validate has returned for a package in which A refers to B and B to A,
\* both tables in the map.
RefersTo(i, name) ==
    \E k \in DOMAIN ForeignKeysOf(package.resources[i]) :
        ForeignKeysOf(package.resources[i])[k].reference.resource = name
C28_Witness ==
    /\ pc.phase = "done"
    /\ DOMAIN dfs = {"A", "B"}
    /\ \E i, j \in DOMAIN package.resources :
           /\ package.resources[i].name = "A" /\ RefersTo(i, "B")
           /\ package.resources[j].name = "B" /\ RefersTo(j, "A")
           /\ ForeignKeyCalls(i) # {} /\ ForeignKeyCalls(j) # {}

\* The values of the column checked that are longer than the maxLength
\* declared, for a field of a type that has a length.
TooLong ==
    IF "maxLength" \in DOMAIN args.constraints
           /\ Get(args.field, "type", "string") \in LengthTypes
    THEN {c \in Range(Column(df, "x")) : c # NA /\ Len(c[1]) > args.constraints["maxLength"]}
    ELSE {}

\* C29: every error returned by check_field_constraints names a constraint
\* that was declared, an error named minLength carries the minLength bound,
\* and values longer than maxLength give an error named maxLength that
\* carries the maxLength bound and lists them.
C29_ErrorNamesItsConstraint ==
    Returned_check_field_constraints =>
        /\ \A k \in DOMAIN out.errors :
               /\ out.errors[k].constraintName \in DOMAIN args.constraints
               /\ out.errors[k].constraintName = "minLength" =>
                      out.errors[k].constraintValue = args.constraints["minLength"]
        /\ TooLong # {} =>
               \E k \in DOMAIN out.errors :
                   /\ out.errors[k].constraintName = "maxLength"
                   /\ out.errors[k].constraintValue = args.constraints["maxLength"]
                   /\ Range(out.errors[k].values) = TooLong

\* The keys of the resource at position r as the descriptor handed to
\* validate declares them: its primary key, its unique keys, and the
\* reference fields of every foreign key of the package that points at it.
DeclaredSchema(r) == args.source[r].schema
PointsAt(s, k, r) ==
    ReferenceParent(ForeignKeysOf(args.source[s])[k], args.source[s].name) = args.source[r].name
DeclaredKeys(r) ==
    ({Get(DeclaredSchema(r), "primaryKey", <<>>)} \ {<<>>})
    \cup Range(Get(DeclaredSchema(r), "uniqueKeys", <<>>))
    \cup UNION {{ForeignKeysOf(args.source[s])[k].reference.fields :
                     k \in {n \in DOMAIN ForeignKeysOf(args.source[s]) : PointsAt(s, n, r)}} :
                 s \in DOMAIN args.source}

\* The constraints of a field of the normalised descriptor.
NormalisedSchema(r) == package.resources[r].schema
NormalisedConstraint(r, name, key) ==
    \E f \in DOMAIN NormalisedSchema(r)["fields"] :
        /\ NormalisedSchema(r)["fields"][f].name = name
        /\ Get(Get(NormalisedSchema(r)["fields"][f], "constraints", <<>>), key, FALSE) = TRUE
Occurrences(keys, key) == Cardinality({i \in DOMAIN keys : keys[i] = key})

\* The descriptor has been normalised and no table has been read.
Normalised == pc.phase = "tables" /\ pc.i = 1 /\ calls = <<>>

\* C30: after the normalisation of the descriptor and before any table is
\* read, for every resource: each field of its primary key is required;
\* each one-field key among its primary key, its unique keys and the
\* reference fields of the foreign keys that point at it is unique=True on
\* the field and no unique key; each such key of several fields is a unique
\* key exactly once; and the schema has no primaryKey.
C30_KeysNormalisedOnce ==
    Normalised =>
        \A r \in DOMAIN package.resources :
            /\ \A j \in DOMAIN Get(DeclaredSchema(r), "primaryKey", <<>>) :
                   NormalisedConstraint(r, DeclaredSchema(r)["primaryKey"][j], "required")
            /\ \A key \in DeclaredKeys(r) :
                   IF Len(key) = 1
                   THEN /\ NormalisedConstraint(r, key[1], "unique")
                        /\ Occurrences(Get(NormalisedSchema(r), "uniqueKeys", <<>>), key) = 0
                   ELSE Occurrences(Get(NormalisedSchema(r), "uniqueKeys", <<>>), key) = 1
            /\ "primaryKey" \notin DOMAIN NormalisedSchema(r)

=============================================================================
